---- MODULE Spec2Model ----
(***************************************************************************)
(* Financial scorecard back end (IBBack).  The repository holds three      *)
(* generations of the same pipeline, all live in the tree:                 *)
(*   "analysis" : services/analysis/* + services/scorecard_service.py      *)
(*                (served by routers/api2.py through services/analyzer2.py)*)
(*   "company"  : services/company.py + services/metrics.py                *)
(*                (served by routers/analyze.py)                           *)
(*   "app2"     : the single-file application app2.py                      *)
(* Numbers are exact rationals: a Python float v is the record Q(n, d).    *)
(* A value Python would print as None is the record None.                  *)
(***************************************************************************)
EXTENDS Integers, Sequences, FiniteSets, TLC

VARIABLES
    impl,       \* which generation of the code serves the request
    ticker,     \* the ticker of the company request
    years,      \* requested look-back, routers/api2.py:31 (1..10)
    thresh,     \* the threshold mapping handed to the analysis
    provider,   \* what the data provider does for the ticker
    stmts,      \* the statement tables the provider returned
    metrics,    \* the metric bundle
    scorecard,  \* the list of score items
    pc,         \* position of the company request
    outcome,    \* what the caller of the company analysis receives
    ind         \* the industry request (record, see IndIdle)

vars == <<impl, ticker, years, thresh, provider, stmts, metrics, scorecard,
          pc, outcome, ind>>

----------------------------------------------------------------------------
(* Values *)

None == [k |-> "None"]

IsNone(v) == v.k = "None"

RECURSIVE GCD(_, _)
GCD(a, b) == IF b = 0 THEN a ELSE GCD(b, a % b)

AbsInt(n) == IF n < 0 THEN -n ELSE n

\* the float n/d, d # 0, in lowest terms with a positive denominator
Q(n, d) ==
    LET g == GCD(AbsInt(n), AbsInt(d))
        s == IF d < 0 THEN -1 ELSE 1
    IN  [k |-> "num", n |-> (s * n) \div g, d |-> (s * d) \div g]

RECURSIVE Pow(_, _)
Pow(b, e) == IF e = 0 THEN 1 ELSE b * Pow(b, e - 1)

\* (p/q) ** (1/n) - 1 for p >= 0, q > 0, n >= 2: kept symbolic, it is irrational
\* in general; comparisons below are exact
Root(p, q, n) ==
    LET g == GCD(p, q) IN [k |-> "root", p |-> p \div g, q |-> q \div g, n |-> n]

\* a Python complex number: what ** returns for a negative base and a
\* fractional exponent
Cplx == [k |-> "complex"]

IsReal(v) == v.k \in {"num", "root"}

\* v >= t and v > t for a real v and a rational t
GE(v, t) ==
    IF v.k = "num" THEN v.n * t.d >= t.n * v.d
    ELSE IF t.d + t.n <= 0 THEN TRUE
    ELSE v.p * Pow(t.d, v.n) >= v.q * Pow(t.d + t.n, v.n)

GT(v, t) ==
    IF v.k = "num" THEN v.n * t.d > t.n * v.d
    ELSE IF t.d + t.n <= 0 THEN (t.d + t.n < 0) \/ v.p > 0
    ELSE v.p * Pow(t.d, v.n) > v.q * Pow(t.d + t.n, v.n)

LE(v, t) == ~GT(v, t)

\* Python truthiness of an optional float: None and 0.0 are falsy
Truthy(v) == ~IsNone(v) /\ ~(v.k = "num" /\ v.n = 0)

\* a displayed number: the metric value times `scale`, rounded to `dec`
\* decimals (dec = -1: not rounded).  Kept as a term; no property reads digits.
Shown(v, scale, dec) == [k |-> "shown", of |-> v, scale |-> scale, dec |-> dec]

----------------------------------------------------------------------------
(* Statement tables and the helpers of utils/finance2.py *)

\* a table cell: NaN, or Cell(v) holding the integer v
NaN == <<>>
Cell(v) == <<v>>

\* A statement table is None or a DataFrame: its columns are period-end dates,
\* newest first as the provider delivers them; rows[name] is <<>> when the
\* table has no such row and <<r>> otherwise, r holding one cell per column.
HasRow(df, name) == df.rows[name] # <<>>

RECURSIVE Reverse(_)
Reverse(s) == IF s = <<>> THEN <<>> ELSE Append(Reverse(Tail(s)), Head(s))

RECURSIVE DropNa(_, _)
DropNa(cols, row) ==
    IF row = <<>> THEN <<>>
    ELSE IF Head(row) = NaN THEN DropNa(Tail(cols), Tail(row))
    ELSE <<[t |-> Head(cols), v |-> Head(row)[1]]>> \o DropNa(Tail(cols), Tail(row))

\* a pandas Series: observations [t |-> period, v |-> value]
Series(obs) == [k |-> "series", s |-> obs]

get_row(df, name) ==
    IF IsNone(df) THEN None
    ELSE IF ~HasRow(df, name) THEN None
    ELSE Series(Reverse(DropNa(df.cols, df.rows[name][1])))

last_value(series) ==
    IF IsNone(series) \/ Len(series.s) = 0 THEN None
    ELSE Q(series.s[Len(series.s)].v, 1)

RECURSIVE SumV(_)
SumV(obs) == IF obs = <<>> THEN 0 ELSE Head(obs).v + SumV(Tail(obs))

Min(a, b) == IF a <= b THEN a ELSE b

avg_last_n(series, n) ==
    IF IsNone(series) \/ n <= 0 THEN None
    ELSE IF Len(series.s) = 0 THEN None
    ELSE LET len  == Len(series.s)
             cnt  == Min(n, len)
             tail == SubSeq(series.s, len - cnt + 1, len)
         IN  Q(SumV(tail), cnt)

\* (first, last, n) as a record; the three are None together
NoWindow == [first |-> None, last |-> None, n |-> None]

\* the window taken as the requested look-back, without the clamp
split_first_last_unclamped(series, yrs) ==
    IF IsNone(series) \/ yrs <= 0 THEN NoWindow
    ELSE IF Len(series.s) < 2 THEN NoWindow
    ELSE LET len == Len(series.s)
             n   == Min(yrs, len - 1)
         IN  [first |-> Q(series.s[len - n].v, 1),
              last  |-> Q(series.s[len].v, 1),
              n     |-> Q(yrs, 1)]

split_first_last(series, yrs) ==
    IF IsNone(series) \/ yrs <= 0 THEN NoWindow
    ELSE IF Len(series.s) < 2 THEN NoWindow
    ELSE LET len == Len(series.s)
             n   == Min(yrs, len - 1)
         IN  [first |-> Q(series.s[len - n].v, 1),
              last  |-> Q(series.s[len].v, 1),
              n     |-> Q(n, 1)]

\* first, last, n are rationals with denominator 1 here (floats of integers)
cagr(first, last, n) ==
    IF IsNone(first) \/ IsNone(last) \/ IsNone(n) THEN None
    ELSE IF first.n <= 0 \/ n.n <= 0 THEN None
    ELSE IF n.n = 1 THEN Q(last.n * first.d - first.n * last.d, first.n * last.d)
    ELSE IF last.n < 0 THEN Cplx
    ELSE Root(last.n * first.d, first.n * last.d, n.n)

ratio_safe(num, den) ==
    IF IsNone(num) \/ IsNone(den) THEN None
    ELSE IF den.n = 0 THEN None
    ELSE Q(num.n * den.d, num.d * den.n)

\* a - b and abs(a) on floats
Sub(a, b) == Q(a.n * b.d - b.n * a.d, a.d * b.d)
Abs(a) == Q(AbsInt(a.n), a.d)

\* value of the observation dated t, 0 when the series has none (fill_value=0)
ValueAt(obs, t) ==
    IF \E i \in 1..Len(obs) : obs[i].t = t
    THEN obs[CHOOSE i \in 1..Len(obs) : obs[i].t = t].v
    ELSE 0

RECURSIVE UnionAdd(_, _, _, _)
UnionAdd(a, b, t, hi) ==
    IF t > hi THEN <<>>
    ELSE IF (\E i \in 1..Len(a) : a[i].t = t) \/ (\E j \in 1..Len(b) : b[j].t = t)
         THEN <<[t |-> t, v |-> ValueAt(a, t) + ValueAt(b, t)]>> \o UnionAdd(a, b, t + 1, hi)
         ELSE UnionAdd(a, b, t + 1, hi)

MaxPeriod(obs) == IF obs = <<>> THEN 0 ELSE obs[Len(obs)].t

add_series(a, b) ==
    IF IsNone(a) /\ IsNone(b) THEN None
    ELSE IF IsNone(a) THEN b
    ELSE IF IsNone(b) THEN a
    ELSE Series(UnionAdd(a.s, b.s, 1,
                         IF MaxPeriod(a.s) >= MaxPeriod(b.s) THEN MaxPeriod(a.s)
                         ELSE MaxPeriod(b.s)))

\* BaseAnalyzer.coalesce for two values
coalesce(a, b) == IF ~IsNone(a) THEN a ELSE IF ~IsNone(b) THEN b ELSE None

----------------------------------------------------------------------------
(* The derive stage: statement tables to the metric bundle *)

\* the result of a call: a value, or the exception it raised
Ok(v) == [ok |-> TRUE, v |-> v, exc |-> "none"]
Raise(e) == [ok |-> FALSE, v |-> None, exc |-> e]

Bundle(rc, om, nd, ic, roe, ni, eq) ==
    [revenue_cagr |-> rc, operating_margin |-> om, net_debt_to_equity |-> nd,
     interest_coverage |-> ic, roe |-> roe, net_income |-> ni, equity |-> eq]

MetricKeys == {"revenue_cagr", "operating_margin", "net_debt_to_equity",
               "interest_coverage", "roe"}

\* CompanyAnalyzer._extract_all_metrics lines 57-59: the balance-sheet rows
analysis_total_debt(bs) == get_row(bs, "Total Debt")
analysis_cash(bs) == get_row(bs, "Cash And Cash Equivalents")
analysis_equity(bs) ==
    coalesce(get_row(bs, "Total Stockholder Equity"),
             get_row(bs, "Total Equity Gross Minority Interest"))

\* CompanyAnalyzer._extract_all_metrics.  None - float and abs(None) raise
\* TypeError: total_debt / cash / interest_expense are tested for None, their
\* last value is not.
extract_all_metrics(t, yrs) ==
    LET fin == t.fin
        bs  == t.bs
        revenue          == get_row(fin, "Total Revenue")
        operating_income == get_row(fin, "Operating Income")
        net_income       == get_row(fin, "Net Income")
        interest_expense == get_row(fin, "Interest Expense")
        total_debt       == analysis_total_debt(bs)
        cash             == analysis_cash(bs)
        equity           == analysis_equity(bs)
        w                == split_first_last(revenue, yrs)
        both             == ~IsNone(total_debt) /\ ~IsNone(cash)
        last_net_debt    == IF both THEN Sub(last_value(total_debt), last_value(cash))
                            ELSE None
        last_equity_val  == last_value(equity)
    IN  IF both /\ (IsNone(last_value(total_debt)) \/ IsNone(last_value(cash)))
        THEN Raise("TypeError")
        ELSE IF ~IsNone(interest_expense) /\ IsNone(last_value(interest_expense))
        THEN Raise("TypeError")
        ELSE Ok(Bundle(
            cagr(w.first, w.last, w.n),
            ratio_safe(last_value(operating_income), last_value(revenue)),
            IF ~IsNone(last_net_debt) THEN ratio_safe(last_net_debt, last_equity_val)
            ELSE None,
            IF ~IsNone(interest_expense)
            THEN ratio_safe(last_value(operating_income), Abs(last_value(interest_expense)))
            ELSE None,
            ratio_safe(last_value(net_income), avg_last_n(equity, 2)),
            net_income, equity))

\* services/metrics.py
calculate_revenue_cagr(rev, yrs) ==
    LET w == split_first_last(rev, yrs) IN cagr(w.first, w.last, w.n)

calculate_operating_margin(op_income, rev) ==
    ratio_safe(last_value(op_income), last_value(rev))

\* raises TypeError when a present series has no observation
calculate_net_debt_to_equity(total_debt, cash, equity) ==
    IF ~IsNone(total_debt) /\ ~IsNone(cash)
    THEN IF IsNone(last_value(total_debt)) \/ IsNone(last_value(cash))
         THEN Raise("TypeError")
         ELSE Ok(ratio_safe(Sub(last_value(total_debt), last_value(cash)),
                            last_value(equity)))
    ELSE Ok(ratio_safe(None, last_value(equity)))

calculate_interest_coverage(op_income, interest_exp) ==
    LET ebit_latest     == last_value(op_income)
        interest_latest == IF ~IsNone(last_value(interest_exp))
                           THEN Abs(last_value(interest_exp)) ELSE None
    IN  IF ~IsNone(interest_latest) /\ interest_latest.n > 0
        THEN ratio_safe(ebit_latest, interest_latest)
        ELSE None

calculate_roe(net_income, equity) ==
    ratio_safe(last_value(net_income), avg_last_n(equity, 2))

\* services/company.py analyze_company, lines 31-47
company_metrics(t, yrs) ==
    LET fin == t.fin
        bs  == t.bs
        rev          == get_row(fin, "Total Revenue")
        op_income    == get_row(fin, "Operating Income")
        net_income   == get_row(fin, "Net Income")
        interest_exp == get_row(fin, "Interest Expense")
        total_debt   == get_row(bs, "Total Debt")
        cash         == get_row(bs, "Cash And Cash Equivalents")
        equity       == get_row(bs, "Total Stockholder Equity")
        nd           == calculate_net_debt_to_equity(total_debt, cash, equity)
    IN  IF ~nd.ok THEN nd
        ELSE Ok(Bundle(calculate_revenue_cagr(rev, yrs),
                       calculate_operating_margin(op_income, rev),
                       nd.v,
                       calculate_interest_coverage(op_income, interest_exp),
                       calculate_roe(net_income, equity),
                       net_income, equity))

\* app2.py lines 302-304: Total Debt, else the sum of the two debt rows
app2_total_debt(bs) ==
    LET debt0 == get_row(bs, "Total Debt")
    IN  IF IsNone(debt0) /\ ~IsNone(bs)
        THEN add_series(get_row(bs, "Short Long Term Debt"), get_row(bs, "Long Term Debt"))
        ELSE debt0

\* app2.py lines 306-310
app2_cash(bs) ==
    LET cash0 == get_row(bs, "Cash And Cash Equivalents")
        cash1 == IF IsNone(cash0) THEN get_row(bs, "Cash And Cash Equivalents USD")
                 ELSE cash0
    IN  IF IsNone(cash1) THEN get_row(bs, "Cash") ELSE cash1

\* app2.py lines 312-314
app2_equity(bs) ==
    LET equity0 == get_row(bs, "Total Stockholder Equity")
    IN  IF IsNone(equity0) THEN get_row(bs, "Total Equity Gross Minority Interest")
        ELSE equity0

\* x or 0
OrZero(v) == IF IsNone(v) THEN Q(0, 1) ELSE v

\* app2.py lines 341-360: the EV/EBIT valuation; upside_pct in percent.
\* t.mkt holds the close price, info['marketCap'] and info['sharesOutstanding'].
\* fair_ev = 15.0 * ebit_latest
app2_fair_ev(ebit_latest) ==
    IF IsNone(ebit_latest) THEN None ELSE Q(15 * ebit_latest.n, ebit_latest.d)

\* fair_equity = fair_ev - (total_debt_latest or 0) + (cash_latest or 0), and
\* the market_cap fallback
app2_fair_equity(fair_ev, d, c, mkt) ==
    IF ~IsNone(fair_ev)
    THEN Q(fair_ev.n * d.d * c.d - d.n * fair_ev.d * c.d + c.n * fair_ev.d * d.d,
           fair_ev.d * d.d * c.d)
    ELSE IF Truthy(mkt.sharesOutstanding) /\ Truthy(mkt.price) THEN mkt.marketCap
    ELSE None

\* fair_value = fair_equity / shares_out
app2_fair_value(fair_equity, shares_out) ==
    IF ~IsNone(fair_equity) /\ Truthy(shares_out)
    THEN Q(fair_equity.n * shares_out.d, fair_equity.d * shares_out.n)
    ELSE None

\* upside_pct = (fair_value / current_price - 1.0) * 100.0
app2_upside_pct(fair_value, current_price) ==
    IF ~IsNone(fair_value) /\ Truthy(current_price)
    THEN Q(100 * (fair_value.n * current_price.d - fair_value.d * current_price.n),
           fair_value.d * current_price.n)
    ELSE None

\* each intermediate value is bound once, as the assignments of the code do
app2_upside(t) ==
    CHOOSE upside_pct \in
        {app2_upside_pct(fair_value, t.mkt.price) :
           fair_value \in
             {app2_fair_value(fair_equity, t.mkt.sharesOutstanding) :
                fair_equity \in
                  {app2_fair_equity(fair_ev, d, c, t.mkt) :
                     fair_ev \in {app2_fair_ev(last_value(get_row(t.fin, "Operating Income")))},
                     d \in {OrZero(last_value(app2_total_debt(t.bs)))},
                     c \in {OrZero(last_value(app2_cash(t.bs)))}}}} : TRUE

\* app2.py analyze_company, lines 292-360
app2_metrics(t, yrs) ==
    LET fin == t.fin
        bs  == t.bs
        rev          == get_row(fin, "Total Revenue")
        op_income    == get_row(fin, "Operating Income")
        net_income   == get_row(fin, "Net Income")
        interest_exp == get_row(fin, "Interest Expense")
        total_debt   == app2_total_debt(bs)
        cash         == app2_cash(bs)
        equity       == app2_equity(bs)
        w            == split_first_last(rev, yrs)
        nd           == IF ~IsNone(total_debt) /\ ~IsNone(cash)
                           /\ ~IsNone(last_value(total_debt)) /\ ~IsNone(last_value(cash))
                        THEN Sub(last_value(total_debt), last_value(cash))
                        ELSE None
        ebit_latest     == last_value(op_income)
        interest_latest == IF ~IsNone(last_value(interest_exp))
                           THEN Abs(last_value(interest_exp)) ELSE None
    IN  Ok(Bundle(cagr(w.first, w.last, w.n),
                  ratio_safe(last_value(op_income), last_value(rev)),
                  ratio_safe(nd, last_value(equity)),
                  IF ~IsNone(interest_latest) /\ interest_latest.n > 0
                  THEN ratio_safe(ebit_latest, interest_latest) ELSE None,
                  ratio_safe(last_value(net_income), avg_last_n(equity, 2)),
                  net_income, equity)
           @@ ("upside_pct" :> app2_upside(t)))

----------------------------------------------------------------------------
(* Thresholds and the three scorecard builders *)

\* ScorecardService.default_thresholds, equal to services/thresholds.py and
\* ThresholdManager.DEFAULT_THRESHOLDS
DEFAULT_THRESHOLDS ==
    [rev_cagr_min |-> Q(5, 100), op_margin_min |-> Q(10, 100), nd_eq_max |-> Q(1, 1),
     interest_cover_min |-> Q(4, 1), roe_min |-> Q(10, 100)]

\* {**a, **b}
DictMerge(a, b) ==
    [key \in DOMAIN a \cup DOMAIN b |-> IF key \in DOMAIN b THEN b[key] ELSE a[key]]

\* Values an override mapping can carry besides floats: a string, and True
\* (bool is a subclass of int).  The empty mapping is <<>>.
Text == [k |-> "str"]
True == [k |-> "bool", b |-> TRUE]

\* isinstance(v, (int, float))
IsNumber(v) == v.k \in {"num", "bool"}

\* float(v) for a number
float(v) == IF v.k = "bool" THEN Q(IF v.b THEN 1 ELSE 0, 1) ELSE v

\* the merge that accumulates instead of replacing
merge_thresholds_adding(overrides) ==
    IF overrides = None \/ DOMAIN overrides = {} THEN DEFAULT_THRESHOLDS
    ELSE [key \in DOMAIN DEFAULT_THRESHOLDS |->
            IF key \in DOMAIN overrides /\ IsNumber(overrides[key])
            THEN Q(DEFAULT_THRESHOLDS[key].n * float(overrides[key]).d
                     + float(overrides[key]).n * DEFAULT_THRESHOLDS[key].d,
                   DEFAULT_THRESHOLDS[key].d * float(overrides[key]).d)
            ELSE DEFAULT_THRESHOLDS[key]]

\* ThresholdManager.merge_thresholds; services/thresholds.py and app2.py hold
\* the same function.  `not overrides` is true for None and for {}.
merge_thresholds(overrides) ==
    IF overrides = None \/ DOMAIN overrides = {} THEN DEFAULT_THRESHOLDS
    ELSE [key \in DOMAIN DEFAULT_THRESHOLDS |->
            IF key \in DOMAIN overrides /\ IsNumber(overrides[key])
            THEN float(overrides[key])
            ELSE DEFAULT_THRESHOLDS[key]]

Item(id, label, value, threshold, unit, verdict, detail) ==
    [id |-> id, label |-> label, value |-> value, threshold |-> threshold,
     unit |-> unit, verdict |-> verdict, detail |-> detail]

\* f'Revenue CAGR ({years}y)'
RevenueCagrLabels ==
    <<"Revenue CAGR (1y)", "Revenue CAGR (2y)", "Revenue CAGR (3y)", "Revenue CAGR (4y)",
      "Revenue CAGR (5y)", "Revenue CAGR (6y)", "Revenue CAGR (7y)", "Revenue CAGR (8y)",
      "Revenue CAGR (9y)", "Revenue CAGR (10y)">>

build_revenue_cagr_item(value, thresholds, yrs) ==
    Item("rev_cagr", RevenueCagrLabels[yrs], Shown(value, 100, 1),
         Shown(thresholds.rev_cagr_min, 100, 1), "%",
         IF GE(value, thresholds.rev_cagr_min) THEN "green" ELSE "red",
         "Actual vs Target")

build_operating_margin_item(value, thresholds) ==
    Item("op_margin", "Operating Margin", Shown(value, 100, 1),
         Shown(thresholds.op_margin_min, 100, 1), "%",
         IF GE(value, thresholds.op_margin_min) THEN "green" ELSE "red",
         "Actual vs Target")

build_net_debt_equity_item(value, thresholds) ==
    Item("nd_eq", "Net Debt / Equity", Shown(value, 1, 2),
         Shown(thresholds.nd_eq_max, 1, 2), "x",
         IF LE(value, thresholds.nd_eq_max) THEN "green" ELSE "red",
         "Actual vs Max")

build_interest_coverage_item(value, thresholds) ==
    Item("interest_cover", "Interest Coverage", Shown(value, 1, 1),
         Shown(thresholds.interest_cover_min, 1, 1), "x",
         IF GE(value, thresholds.interest_cover_min) THEN "green" ELSE "red",
         "Actual vs Min")

build_roe_item(value, thresholds) ==
    Item("roe", "Return on Equity (ROE)", Shown(value, 100, 1),
         Shown(thresholds.roe_min, 100, 1), "%",
         IF GE(value, thresholds.roe_min) THEN "green" ELSE "red",
         "Actual vs Target")

\* `if metrics.get(key) is not None: scorecard.append(...)`
AppendIf(present, items, item) == IF present THEN Append(items, item) ELSE items

\* thresholds[...] as each item builder reads it for a metric
ThresholdOf(th, key) ==
    IF key = "revenue_cagr" THEN th.rev_cagr_min
    ELSE IF key = "operating_margin" THEN th.op_margin_min
    ELSE IF key = "net_debt_to_equity" THEN th.nd_eq_max
    ELSE IF key = "interest_coverage" THEN th.interest_cover_min
    ELSE th.roe_min

\* ScorecardService.build_scorecard: an item is appended only for a metric
\* that is not None.  Comparing a complex CAGR with a float raises TypeError,
\* and so does comparing a float with a threshold that is not a number
\* (`value >= 'x'`); True enters `*` and `>=` as 1.
build_scorecard(m, overrides, yrs) ==
    LET merged == DictMerge(DEFAULT_THRESHOLDS, overrides)
        thresholds == [key \in DOMAIN merged |->
                         IF IsNumber(merged[key]) THEN float(merged[key]) ELSE merged[key]]
        s1 == AppendIf(~IsNone(m.revenue_cagr), <<>>,
                       build_revenue_cagr_item(m.revenue_cagr, thresholds, yrs))
        s2 == AppendIf(~IsNone(m.operating_margin), s1,
                       build_operating_margin_item(m.operating_margin, thresholds))
        s3 == AppendIf(~IsNone(m.net_debt_to_equity), s2,
                       build_net_debt_equity_item(m.net_debt_to_equity, thresholds))
        s4 == AppendIf(~IsNone(m.interest_coverage), s3,
                       build_interest_coverage_item(m.interest_coverage, thresholds))
        s5 == AppendIf(~IsNone(m.roe), s4, build_roe_item(m.roe, thresholds))
    IN  IF m.revenue_cagr = Cplx THEN Raise("TypeError")
        ELSE IF \E key \in MetricKeys :
                   ~IsNone(m[key]) /\ ~IsNumber(ThresholdOf(merged, key))
        THEN Raise("TypeError")
        ELSE Ok(s5)

\* services/company.py lines 58-108: `"green" if v and v >= t else "red"`
\* (for net debt / equity: `v and v <= t`); None and 0.0 are falsy
company_verdict(v, t, mode) ==
    IF Truthy(v) /\ (IF mode = ">=" THEN GE(v, t) ELSE LE(v, t)) THEN "green" ELSE "red"

company_scorecard(m, th) ==
    IF m.revenue_cagr = Cplx THEN Raise("TypeError")
    ELSE Ok(<<
        Item("rev_cagr", "Revenue growth (CAGR)",
             IF ~IsNone(m.revenue_cagr) THEN Shown(m.revenue_cagr, 100, -1) ELSE None,
             Shown(th.rev_cagr_min, 100, -1), "pct",
             company_verdict(m.revenue_cagr, th.rev_cagr_min, ">="), "None"),
        Item("op_margin", "Operating margin",
             IF ~IsNone(m.operating_margin) THEN Shown(m.operating_margin, 100, -1) ELSE None,
             Shown(th.op_margin_min, 100, -1), "pct",
             company_verdict(m.operating_margin, th.op_margin_min, ">="), "None"),
        Item("nd_eq", "Net debt / Equity",
             IF ~IsNone(m.net_debt_to_equity) THEN Shown(m.net_debt_to_equity, 1, -1) ELSE None,
             Shown(th.nd_eq_max, 1, -1), "x",
             company_verdict(m.net_debt_to_equity, th.nd_eq_max, "<="), "None"),
        Item("int_cover", "Interest coverage",
             IF ~IsNone(m.interest_coverage) THEN Shown(m.interest_coverage, 1, -1) ELSE None,
             Shown(th.interest_cover_min, 1, -1), "x",
             company_verdict(m.interest_coverage, th.interest_cover_min, ">="), "None"),
        Item("roe", "Return on Equity (ROE)",
             IF ~IsNone(m.roe) THEN Shown(m.roe, 100, -1) ELSE None,
             Shown(th.roe_min, 100, -1), "pct",
             company_verdict(m.roe, th.roe_min, ">="), "None")>>)

\* app2.py verdict(), lines 363-367
verdict(val, threshold, mode) ==
    IF IsNone(val) THEN [v |-> "amber", d |-> "Insufficient data"]
    ELSE [v |-> IF (IF mode = ">=" THEN GE(val, threshold) ELSE LE(val, threshold))
                THEN "green" ELSE "red",
          d |-> "value vs threshold"]

\* app2.py mk_score(), lines 376-383
mk_score(id, label, val, thr, mode, unit) ==
    LET r == verdict(val, thr, mode)
        scale == IF unit = "pct" THEN 100 ELSE 1
    IN  Item(id, label, IF ~IsNone(val) THEN Shown(val, scale, -1) ELSE None,
             Shown(thr, scale, -1), unit, r.v, r.d)

\* app2.py lines 386-392
app2_scorecard(m, th) ==
    IF m.revenue_cagr = Cplx THEN Raise("TypeError")
    ELSE Ok(<<
        mk_score("rev_cagr", "Revenue growth (CAGR)", m.revenue_cagr, th.rev_cagr_min, ">=", "pct"),
        mk_score("op_margin", "Operating margin", m.operating_margin, th.op_margin_min, ">=", "pct"),
        mk_score("nd_eq", "Net debt / Equity", m.net_debt_to_equity, th.nd_eq_max, "<=", "x"),
        mk_score("int_cover", "Interest coverage", m.interest_coverage, th.interest_cover_min, ">=", "x"),
        mk_score("roe", "ROE", m.roe, th.roe_min, ">=", "pct")>>)

----------------------------------------------------------------------------
(* One company request: fetch, derive, assemble *)

\* what the caller gets
NoOutcome == [k |-> "none"]

\* AnalyzeResponse of a company analysis (models/schemas2.py has no `metrics`
\* field, pydantic drops it; the schema of app2.py has none either)
Returned(t, sc, pros) ==
    [k |-> "returned", queryType |-> "company", key |-> t, scorecard |-> sc,
     pros |-> pros, cons |-> <<>>, sources |-> <<t>>, upsidePct |-> None]

\* ValuationBlock(..., upsidePct=upside_pct)
WithUpside(r, upside_pct) == [r EXCEPT !.upsidePct = upside_pct]

\* An HTTPException reaching the caller.  detail names the ticker ("" when it
\* does not) and the cause; `stage` records where the exception arose.
Failure(status, t, cause, stage) ==
    [k |-> "raised", status |-> status, ticker |-> t, cause |-> cause, stage |-> stage]

\* `except HTTPException: raise` / `except Exception as e: raise HTTPException(400, ...)`
\* of services/company.py and app2.py: an HTTPException passes through unchanged
FailedToAnalyze(t, exc, stage) ==
    IF exc = "HTTPException" THEN Failure(500, "", "Dependencies missing", stage)
    ELSE Failure(400, t, exc, stage)

\* CompanyAnalyzer.analyze: `except Exception as e: raise HTTPException(400,
\* f"Analysis failed for {ticker}: {e}")`
AnalysisFailed(t, exc, stage) == Failure(400, t, exc, stage)

\* a handler that lets the exception through as it is
HandlerPassesThrough(i, t, exc, stage) ==
    IF i = "analysis" THEN Failure(500, "", exc, stage) ELSE FailedToAnalyze(t, exc, stage)

Handler(i, t, exc, stage) ==
    IF i = "analysis" THEN AnalysisFailed(t, exc, stage) ELSE FailedToAnalyze(t, exc, stage)

\* the fetch stage: the exception it raises, "none" when the provider answers.
\* CompanyAnalyzer imports yfinance inside its try block; get_yf_ticker calls
\* require_deps, which raises HTTPException(500).
FetchExc(i, p) ==
    IF p.k = "down" THEN "ConnectionError"
    ELSE IF p.k = "nodeps" THEN (IF i = "analysis" THEN "ImportError" ELSE "HTTPException")
    ELSE "none"

Metrics(i, t, yrs) ==
    IF i = "analysis" THEN extract_all_metrics(t, yrs)
    ELSE IF i = "company" THEN company_metrics(t, yrs)
    ELSE app2_metrics(t, yrs)

\* CompanyAnalyzer._generate_insights: metrics.get(key, 0) returns None for a
\* key that is present with value None, and None > 0.10 raises TypeError
generate_insights(m) ==
    IF ~IsReal(m.revenue_cagr) THEN Raise("TypeError")
    ELSE IF ~IsReal(m.operating_margin) THEN Raise("TypeError")
    ELSE Ok((IF GT(m.revenue_cagr, Q(10, 100)) THEN <<"Strong growth">> ELSE <<>>)
            \o (IF GT(m.operating_margin, Q(20, 100)) THEN <<"High margins">> ELSE <<>>))

\* app2.py lines 400-405: `if rev_cagr and rev_cagr > 0.10`
app2_pros(m) ==
    (IF Truthy(m.revenue_cagr) /\ GT(m.revenue_cagr, Q(10, 100))
     THEN <<"Strong top-line growth">> ELSE <<>>)
    \o (IF Truthy(m.operating_margin) /\ GT(m.operating_margin, Q(20, 100))
        THEN <<"High operating margins">> ELSE <<>>)
    \o (IF Truthy(m.roe) /\ GT(m.roe, Q(15, 100)) THEN <<"Solid ROE">> ELSE <<>>)

\* The assemble stage: [sc |-> the scorecard built, r |-> Ok(response) or Raise].
\* services/company.py line 124 calls ValuationBlock(...) with the Ellipsis as
\* a positional argument, which pydantic rejects with TypeError on every call.
Assemble(i, t, m, th, yrs) ==
    IF i = "analysis" THEN
        LET sc == build_scorecard(m, th, yrs)
            ins == generate_insights(m)
        IN  IF ~sc.ok THEN [sc |-> <<>>, r |-> sc]
            ELSE IF ~ins.ok THEN [sc |-> sc.v, r |-> ins]
            ELSE [sc |-> sc.v, r |-> Ok(Returned(t, sc.v, ins.v))]
    ELSE IF i = "company" THEN
        LET sc == company_scorecard(m, th)
        IN  IF ~sc.ok THEN [sc |-> <<>>, r |-> sc]
            ELSE [sc |-> sc.v, r |-> Raise("TypeError")]
    ELSE
        LET sc == app2_scorecard(m, th)
        IN  IF ~sc.ok THEN [sc |-> <<>>, r |-> sc]
            ELSE [sc |-> sc.v,
                  r |-> Ok(WithUpside(Returned(t, sc.v, app2_pros(m)), m.upside_pct))]

\* the whole call, as the industry aggregators use it
Assembled(i, t, a) ==
    IF ~a.r.ok THEN Handler(i, t, a.r.exc, "assemble") ELSE a.r.v

Derived(i, t, d, th, yrs) ==
    IF ~d.ok THEN Handler(i, t, d.exc, "derive")
    ELSE CHOOSE r \in {Assembled(i, t, a) : a \in {Assemble(i, t, d.v, th, yrs)}} : TRUE

AnalyzeCompany(i, t, p, th, yrs) ==
    IF FetchExc(i, p) # "none" THEN Handler(i, t, FetchExc(i, p), "fetch")
    ELSE CHOOSE r \in {Derived(i, t, d, th, yrs) : d \in {Metrics(i, p, yrs)}} : TRUE

IndIdle == [pc |-> "idle"]

Fetch ==
    /\ pc = "fetch"
    /\ IF FetchExc(impl, provider) # "none"
       THEN /\ pc' = "raised"
            /\ outcome' = Handler(impl, ticker, FetchExc(impl, provider), "fetch")
            /\ UNCHANGED stmts
       ELSE /\ pc' = "derive"
            /\ stmts' = provider
            /\ UNCHANGED outcome
    /\ UNCHANGED <<impl, ticker, years, thresh, provider, metrics, scorecard, ind>>

Derive ==
    /\ pc = "derive"
    /\ LET d == Metrics(impl, stmts, years)
       IN  IF d.ok
           THEN /\ pc' = "assemble"
                /\ metrics' = d.v
                /\ UNCHANGED outcome
           ELSE /\ pc' = "raised"
                /\ outcome' = Handler(impl, ticker, d.exc, "derive")
                /\ UNCHANGED metrics
    /\ UNCHANGED <<impl, ticker, years, thresh, provider, stmts, scorecard, ind>>

AssembleStep ==
    /\ pc = "assemble"
    /\ LET a == Assemble(impl, ticker, metrics, thresh, years)
       IN  /\ scorecard' = a.sc
           /\ IF a.r.ok
              THEN pc' = "returned" /\ outcome' = a.r.v
              ELSE pc' = "raised" /\ outcome' = Handler(impl, ticker, a.r.exc, "assemble")
    /\ UNCHANGED <<impl, ticker, years, thresh, provider, stmts, metrics, ind>>

----------------------------------------------------------------------------
(* Inputs *)

MaxPeriods == 3     \* columns of a statement table
MaxYears == 2       \* requested look-back years (the routers accept 1..10)

Impls == {"analysis", "company", "app2"}
Tickers == {"NVDA", "ABB"}

FinNames == {"Total Revenue", "Operating Income", "Net Income", "Interest Expense"}
BsNames == {"Total Debt", "Short Long Term Debt", "Long Term Debt",
            "Cash And Cash Equivalents", "Cash And Cash Equivalents USD", "Cash",
            "Total Stockholder Equity", "Total Equity Gross Minority Interest"}

\* period-end dates 1..MaxPeriods, newest first
Cols == [i \in 1..MaxPeriods |-> MaxPeriods + 1 - i]

\* row shapes: no such row; every cell NaN; a value in every period; a value
\* in the latest period only; NaN in the latest period only
NoRow == <<>>
AllNaN == <<[i \in 1..MaxPeriods |-> NaN]>>
Full(F) == <<[i \in 1..MaxPeriods |-> Cell(F[Cols[i]])]>>
LatestOnly(F) == <<[i \in 1..MaxPeriods |-> IF i = 1 THEN Cell(F[Cols[i]]) ELSE NaN]>>
LatestNaN(F) == <<[i \in 1..MaxPeriods |-> IF i = 1 THEN NaN ELSE Cell(F[Cols[i]])]>>

Doubling == [t \in 1..MaxPeriods |-> Pow(2, t)]    \* 2, 4, 8: +100% a year
ZeroThenFour == [t \in 1..MaxPeriods |-> IF t = MaxPeriods THEN 4 ELSE 0]    \* a zero base
FourThenZero == [t \in 1..MaxPeriods |-> IF t = MaxPeriods THEN 0 ELSE 4]    \* a zero latest value
One == [t \in 1..MaxPeriods |-> 1]
Two == [t \in 1..MaxPeriods |-> 2]
Three == [t \in 1..MaxPeriods |-> 3]
Zero == [t \in 1..MaxPeriods |-> 0]
MinusOne == [t \in 1..MaxPeriods |-> -1]
Alternating == [t \in 1..MaxPeriods |-> IF t % 2 = 0 THEN 2 ELSE -2]    \* two-period average 0

Table(rows) == [k |-> "table", cols |-> Cols, rows |-> rows]

FinTable(rev, op, ni, ie) ==
    Table([n \in FinNames |->
        IF n = "Total Revenue" THEN rev
        ELSE IF n = "Operating Income" THEN op
        ELSE IF n = "Net Income" THEN ni
        ELSE ie])

\* debt, cash, equity: <<row under the first name, rows under the fallbacks>>
BsTable(debt, cash, eq) ==
    Table([n \in BsNames |->
        IF n = "Total Debt" THEN debt[1]
        ELSE IF n = "Short Long Term Debt" THEN debt[2]
        ELSE IF n = "Long Term Debt" THEN debt[3]
        ELSE IF n = "Cash And Cash Equivalents" THEN cash[1]
        ELSE IF n = "Cash And Cash Equivalents USD" THEN cash[2]
        ELSE IF n = "Cash" THEN cash[3]
        ELSE IF n = "Total Stockholder Equity" THEN eq[1]
        ELSE eq[2]])

\* price history and info of a ticker that the provider has none of
NoMarket == [price |-> None, marketCap |-> None, sharesOutstanding |-> None]

Data(fin, bs) == [k |-> "data", fin |-> fin, bs |-> bs, mkt |-> NoMarket]

\* a share price of `price`, one share outstanding
Priced(data, price) ==
    [data EXCEPT !.mkt = [price |-> Q(price, 1), marketCap |-> Q(price, 1),
                          sharesOutstanding |-> Q(1, 1)]]

DataSet(revs, ops, nis, ies, debts, cashes, eqs) ==
    {Data(FinTable(rev, op, ni, ie), BsTable(debt, cash, eq)) :
        rev \in revs, op \in ops, ni \in nis, ie \in ies,
        debt \in debts, cash \in cashes, eq \in eqs}

\* every line item absent, present but empty, or with values
AllRevenue == {NoRow, AllNaN, LatestOnly(Doubling), Full(Doubling),
               Full(ZeroThenFour), Full(FourThenZero)}
AllOpIncome == {NoRow, AllNaN, Full(One), LatestNaN(One)}
AllNetIncome == {NoRow, AllNaN, Full(One)}
AllInterest == {NoRow, AllNaN, Full(MinusOne), Full(Zero)}
AllDebt == {<<NoRow, NoRow, NoRow>>, <<AllNaN, NoRow, NoRow>>, <<Full(Three), NoRow, NoRow>>,
            <<NoRow, Full(One), LatestOnly(Two)>>}
AllCash == {<<NoRow, NoRow, NoRow>>, <<AllNaN, NoRow, NoRow>>, <<Full(One), NoRow, NoRow>>,
            <<NoRow, NoRow, Full(One)>>}
AllEquity == {<<NoRow, NoRow>>, <<AllNaN, NoRow>>, <<Full(Two), NoRow>>,
              <<Full(Alternating), NoRow>>, <<NoRow, Full(Two)>>}

AllData == DataSet(AllRevenue, AllOpIncome, AllNetIncome, AllInterest,
                   AllDebt, AllCash, AllEquity)

\* the requests of the company specification
CompanyData ==
    DataSet({Full(Doubling), LatestOnly(Doubling)}, {NoRow, Full(One), LatestNaN(One)},
            {Full(One)}, {NoRow, AllNaN, Full(MinusOne)},
            {<<Full(Three), NoRow, NoRow>>, <<AllNaN, NoRow, NoRow>>},
            {<<Full(One), NoRow, NoRow>>}, {<<Full(Two), NoRow>>, <<NoRow, NoRow>>})

Down == [k |-> "down"]
\* a provider whose fetch never completes
Hung == [k |-> "hung"]
NoDeps == [k |-> "nodeps"]

\* threshold mappings as thresholds_from_params returns them
ZeroThresholds ==
    [rev_cagr_min |-> Q(0, 1), op_margin_min |-> Q(0, 1), nd_eq_max |-> Q(0, 1),
     interest_cover_min |-> Q(0, 1), roe_min |-> Q(0, 1)]
ThreshInputs == {DEFAULT_THRESHOLDS, ZeroThresholds}

\* metric values around the default thresholds, for the scorecard builders
ValuesNear(t) == {None, Q(-1, 100), Q(0, 1), t, Q(t.n * 100 + t.d, t.d * 100)}
MetricInputs ==
    {Bundle(rc, om, nd, ic, roe, None, None) :
        rc \in ValuesNear(DEFAULT_THRESHOLDS.rev_cagr_min),
        om \in ValuesNear(DEFAULT_THRESHOLDS.op_margin_min),
        nd \in ValuesNear(DEFAULT_THRESHOLDS.nd_eq_max),
        ic \in ValuesNear(DEFAULT_THRESHOLDS.interest_cover_min),
        roe \in ValuesNear(DEFAULT_THRESHOLDS.roe_min)}

----------------------------------------------------------------------------
(* Specifications *)

\* a company request from start to finish, under each generation of the code
Init ==
    /\ impl \in Impls
    /\ ticker \in Tickers
    /\ years \in 1..MaxYears
    /\ thresh \in ThreshInputs
    /\ provider \in CompanyData \cup {Down, NoDeps}
    /\ stmts = None
    /\ metrics = None
    /\ scorecard = <<>>
    /\ pc = "fetch"
    /\ outcome = NoOutcome
    /\ ind = IndIdle

Next == Fetch \/ Derive \/ AssembleStep

Spec == Init /\ [][Next]_vars

\* the derive stage of CompanyAnalyzer over every shape of the line items
InitDerive ==
    /\ impl = "analysis"
    /\ ticker = "NVDA"
    /\ years \in 1..MaxYears
    /\ thresh = DEFAULT_THRESHOLDS
    /\ provider \in AllData
    /\ stmts = provider
    /\ metrics = None
    /\ scorecard = <<>>
    /\ pc = "derive"
    /\ outcome = NoOutcome
    /\ ind = IndIdle

SpecDerive == InitDerive /\ [][Derive]_vars

\* the scorecard builders as functions of a metric bundle and thresholds
ScoreWith(i, r) ==
    /\ pc = "score"
    /\ r.ok
    /\ impl' = i
    /\ scorecard' = r.v
    /\ pc' = "scored"
    /\ UNCHANGED <<ticker, years, thresh, provider, stmts, metrics, outcome, ind>>

ScoreAnalysis == ScoreWith("analysis", build_scorecard(metrics, thresh, years))
ScoreCompany == ScoreWith("company", company_scorecard(metrics, thresh))
ScoreApp2 == ScoreWith("app2", app2_scorecard(metrics, thresh))

InitScore ==
    /\ impl = "none"
    /\ ticker = "NVDA"
    /\ years \in 1..MaxYears
    /\ thresh \in ThreshInputs
    /\ provider = None
    /\ stmts = None
    /\ metrics \in MetricInputs
    /\ scorecard = <<>>
    /\ pc = "score"
    /\ outcome = NoOutcome
    /\ ind = IndIdle

NextScore == ScoreAnalysis \/ ScoreCompany \/ ScoreApp2

SpecScore == InitScore /\ [][NextScore]_vars

----------------------------------------------------------------------------
(* Industry analysis: IndustryAnalyzer.analyze and app2.analyze_industry *)

Range(seq) == {seq[n] : n \in 1..Len(seq)}

MaxRoster == 4      \* constituents kept of the Robotics roster (the map lists 7)
PoolCap == 3        \* ThreadPoolExecutor(max_workers=min(3, len(tickers)))
SourceCap == 3      \* tickers[:3]

INDUSTRY_MAP ==
    [Robotics |-> SubSeq(<<"ABB", "FANUY", "ROK", "ISRG", "TER", "CGNX", "IRBT">>,
                         1, MaxRoster),
     Semiconductors |-> <<"NVDA">>]

\* a lookup that falls back to the Robotics roster for an unknown key
RosterWithFallback(industry) ==
    IF industry \in DOMAIN INDUSTRY_MAP THEN INDUSTRY_MAP[industry]
    ELSE INDUSTRY_MAP.Robotics

\* INDUSTRY_MAP.get(industry, [])
Roster(industry) ==
    IF industry \in DOMAIN INDUSTRY_MAP THEN INDUSTRY_MAP[industry] ELSE <<>>

\* label.lower().replace(' ', '_')
LabelId(label) ==
    IF label = "Revenue growth" THEN "revenue_growth"
    ELSE IF label = "Revenue growth (CAGR)" THEN "revenue_growth_(cagr)"
    ELSE IF label = "Operating margin" THEN "operating_margin"
    ELSE IF label = "Net debt / Equity" THEN "net_debt_/_equity"
    ELSE IF label = "Interest coverage" THEN "interest_coverage"
    ELSE "roe"

\* the score items of the constituents that carry the label
Hits(companies, label) ==
    {h \in UNION {{c} \X (1..Len(companies[c].scorecard)) : c \in 1..Len(companies)} :
        companies[h[1]].scorecard[h[2]].label = label}

\* the green items of the first response only
GreenHitsOfFirst(companies, label) ==
    {h \in Hits(companies, label) :
        h[1] = 1 /\ companies[h[1]].scorecard[h[2]].verdict = "green"}

GreenHits(companies, label) ==
    {h \in Hits(companies, label) : companies[h[1]].scorecard[h[2]].verdict = "green"}

quick_labels == <<"Revenue growth", "Operating margin", "ROE">>

\* pct = green / total; 'green' if pct >= 0.6 else ('amber' if pct >= 0.3 else 'red')
quick_verdict(green, total) ==
    IF 10 * green >= 6 * total THEN "green"
    ELSE IF 10 * green >= 3 * total THEN "amber" ELSE "red"

RECURSIVE quick_items(_, _)
quick_items(companies, labels) ==
    IF labels = <<>> THEN <<>>
    ELSE LET label == Head(labels)
             total == Cardinality(Hits(companies, label))
             green == Cardinality(GreenHits(companies, label))
         IN  (IF total > 0
              THEN <<Item(LabelId(label), label, None, None, None,
                          quick_verdict(green, total),
                          [k |-> "pass", green |-> green, total |-> total])>>
              ELSE <<>>)
             \o quick_items(companies, Tail(labels))

quick_scorecard(companies) ==
    IF companies = <<>> THEN <<>> ELSE quick_items(companies, quick_labels)

\* {"green": 2, "amber": 1, "red": 0}.get(v, 1)
score_to_num(v) == IF v = "green" THEN 2 ELSE IF v = "red" THEN 0 ELSE 1

app2_labels ==
    <<"Revenue growth (CAGR)", "Operating margin", "Net debt / Equity",
      "Interest coverage", "ROE">>

RECURSIVE SumScores(_, _)
SumScores(companies, hits) ==
    IF hits = {} THEN 0
    ELSE LET h == CHOOSE x \in hits : TRUE
         IN  score_to_num(companies[h[1]].scorecard[h[2]].verdict)
             + SumScores(companies, hits \ {h})

\* avg = agg / count; 'green' if avg >= 1.5 else ('amber' if avg >= 1.0 else 'red')
average_verdict(agg, count) ==
    IF 2 * agg >= 3 * count THEN "green"
    ELSE IF agg >= count THEN "amber" ELSE "red"

RECURSIVE app2_items(_, _)
app2_items(comps, labels) ==
    IF labels = <<>> THEN <<>>
    ELSE LET label == Head(labels)
             count == Cardinality(Hits(comps, label))
             agg == SumScores(comps, Hits(comps, label))
         IN  (IF count = 0 THEN <<>>
              ELSE <<Item(LabelId(label), label, None, None, None,
                          average_verdict(agg, count),
                          [k |-> "average", avg |-> Q(agg, count)])>>)
             \o app2_items(comps, Tail(labels))

app2_aggregate(comps) == app2_items(comps, app2_labels)

Aggregate(i, companies) ==
    IF i = "analysis" THEN quick_scorecard(companies) ELSE app2_aggregate(companies)

\* a < b, a <= b on floats
Less(a, b) == a.n * b.d < b.n * a.d
AtMost(a, b) == a.n * b.d <= b.n * a.d

\* the k-th smallest of the values
Ranked(vals, k) ==
    vals[CHOOSE i \in 1..Len(vals) :
            /\ Cardinality({j \in 1..Len(vals) : Less(vals[j], vals[i])}) < k
            /\ k <= Cardinality({j \in 1..Len(vals) : AtMost(vals[j], vals[i])})]

\* float(np.median(upsides)): the middle value; the mean of the two middle
\* values of an even number of them
median(vals) ==
    LET n == Len(vals)
    IN  IF n % 2 = 1 THEN Ranked(vals, (n + 1) \div 2)
        ELSE LET lo == Ranked(vals, n \div 2)
                 hi == Ranked(vals, n \div 2 + 1)
             IN  Q(lo.n * hi.d + hi.n * lo.d, 2 * lo.d * hi.d)

RECURSIVE UpsidesOrZero(_)
\* absent upsides counted as 0
UpsidesOrZero(comps) ==
    IF comps = <<>> THEN <<>>
    ELSE <<OrZero(Head(comps).upsidePct)>> \o UpsidesOrZero(Tail(comps))

RECURSIVE Upsides(_)
\* [c.valuation.upsidePct for c in comps if ... upsidePct is not None]
Upsides(comps) ==
    IF comps = <<>> THEN <<>>
    ELSE (IF IsNone(Head(comps).upsidePct) THEN <<>> ELSE <<Head(comps).upsidePct>>)
         \o Upsides(Tail(comps))

\* app2.py lines 478-479
med_upside(comps) ==
    IF Upsides(comps) # <<>> THEN median(Upsides(comps)) ELSE None

IndustryResponse(industry, sc, pros, cons, risks, sources) ==
    [k |-> "returned", queryType |-> "industry", key |-> industry, scorecard |-> sc,
     pros |-> pros, cons |-> cons, risks |-> risks, sources |-> sources,
     upsidePct |-> None]

\* the upside of the industry valuation: IndustryAnalyzer returns
\* ValuationBlock(), app2 ValuationBlock(..., upsidePct=med_upside)
AggregateUpside(i, companies) ==
    IF i = "analysis" THEN None ELSE med_upside(companies)

\* IndustryAnalyzer._empty_response, and the early return of app2.analyze_industry
empty_response(industry) == IndustryResponse(industry, <<>>, <<>>, <<>>, <<>>, <<>>)

\* the response over a non-empty roster
industry_response(i, industry, tickers, companies) ==
    IF i = "analysis"
    THEN IndustryResponse(industry, quick_scorecard(companies),
             <<"Secular growth trends in automation">>,
             <<"Valuation dispersion across peers">>,
             <<"Supply chain and capex sensitivity">>,
             SubSeq(tickers, 1, Min(SourceCap, Len(tickers))))
    ELSE WithUpside(
             IndustryResponse(industry, app2_aggregate(companies),
                 <<"Secular growth in automation and AI adoption">>,
                 <<"Valuation dispersion across sub-segments is high">>,
                 <<"Capex cycles and supply chain constraints can impact orders">>,
                 tickers),
             med_upside(companies))

Four == [t \in 1..MaxPeriods |-> 4]

\* what the provider holds for a constituent
Strong == Priced(Data(FinTable(Full(Doubling), Full(Four), Full(One), Full(MinusOne)),
                      BsTable(<<Full(Three), NoRow, NoRow>>, <<Full(One), NoRow, NoRow>>,
                              <<Full(Two), NoRow>>)), 10)
Weak == Priced(Data(FinTable(Full(One), Full(Zero), Full(Zero), Full(MinusOne)),
                    BsTable(<<Full(Three), NoRow, NoRow>>, <<Full(One), NoRow, NoRow>>,
                            <<Full(One), NoRow>>)), 10)
Partial == Data(FinTable(Full(Doubling), Full(Four), Full(One), NoRow),
                BsTable(<<Full(Three), NoRow, NoRow>>, <<Full(One), NoRow, NoRow>>,
                        <<NoRow, NoRow>>))
Profiles == {Strong, Weak, Partial, Down}

Run(industry, profile) ==
    [industry |-> industry, tickers |-> <<>>, profile |-> profile,
     status |-> <<>>, companies |-> <<>>, started |-> {}]

\* the outcome of the company analysis of constituent n
Constituent(n) ==
    AnalyzeCompany(impl, ind.tickers[n], ind.profile[n], thresh, years)

\* the roster lookup and the `if not tickers` return; otherwise the analyses
\* are submitted to the pool (analysis) or the comprehension begins (app2)
IndustryBegin ==
    /\ pc = "begin"
    /\ LET tickers == Roster(ind.industry)
       IN  IF tickers = <<>>
           THEN /\ outcome' = empty_response(ind.industry)
                /\ pc' = "returned"
                /\ ind' = ind
           ELSE /\ ind' = [ind EXCEPT !.tickers = tickers,
                                      !.status = [n \in 1..Len(tickers) |-> "queued"]]
                /\ pc' = IF impl = "analysis" THEN "pool" ELSE "loop"
                /\ outcome' = outcome
    /\ UNCHANGED <<impl, ticker, years, thresh, provider, stmts, metrics, scorecard>>

Running == {n \in 1..Len(ind.status) : ind.status[n] = "running"}

\* a pool that starts every queued analysis at once
TaskStartUncapped(n) ==
    /\ pc = "pool"
    /\ ind.status[n] = "queued"
    /\ \A m \in 1..(n - 1) : ind.status[m] # "queued"
    /\ ind' = [ind EXCEPT !.status[n] = "running",
                          !.started = @ \cup {ind.tickers[n]}]
    /\ UNCHANGED <<impl, ticker, years, thresh, provider, stmts, metrics, scorecard,
                   pc, outcome>>

\* a free worker of the pool takes the oldest queued analysis
TaskStart(n) ==
    /\ pc = "pool"
    /\ ind.status[n] = "queued"
    /\ \A m \in 1..(n - 1) : ind.status[m] # "queued"
    /\ Cardinality(Running) < Min(PoolCap, Len(ind.tickers))
    /\ ind' = [ind EXCEPT !.status[n] = "running",
                          !.started = @ \cup {ind.tickers[n]}]
    /\ UNCHANGED <<impl, ticker, years, thresh, provider, stmts, metrics, scorecard,
                   pc, outcome>>

\* the analysis returns or raises inside its worker; the future is done.
\* An analysis whose fetch never completes never gets here.
TaskFinish(n) ==
    /\ pc = "pool"
    /\ ind.status[n] = "running"
    /\ ind.profile[n] # Hung
    /\ ind' = [ind EXCEPT !.status[n] = "finished"]
    /\ UNCHANGED <<impl, ticker, years, thresh, provider, stmts, metrics, scorecard,
                   pc, outcome>>

\* as_completed hands over a done future: its response is appended, its
\* exception is swallowed (`except Exception: continue`)
Collect(n) ==
    /\ pc = "pool"
    /\ ind.status[n] = "finished"
    /\ \E r \in {Constituent(n)} :
           ind' = [ind EXCEPT !.status[n] = "collected",
                              !.companies = IF r.k = "returned" THEN Append(@, r) ELSE @]
    /\ UNCHANGED <<impl, ticker, years, thresh, provider, stmts, metrics, scorecard,
                   pc, outcome>>

\* one iteration of `[analyze_company(t, years, thresh) for t in tickers]`:
\* nothing catches the HTTPException of a constituent
AnalyzeNext(n) ==
    /\ pc = "loop"
    /\ ind.status[n] = "queued"
    /\ ind.profile[n] # Hung
    /\ \A m \in 1..(n - 1) : ind.status[m] # "queued"
    /\ \E r \in {Constituent(n)} :
           IF r.k = "returned"
           THEN /\ ind' = [ind EXCEPT !.status[n] = "collected",
                                      !.started = @ \cup {ind.tickers[n]},
                                      !.companies = Append(@, r)]
                /\ UNCHANGED <<pc, outcome>>
           ELSE /\ ind' = [ind EXCEPT !.status[n] = "collected",
                                      !.started = @ \cup {ind.tickers[n]}]
                /\ pc' = "raised"
                /\ outcome' = r
    /\ UNCHANGED <<impl, ticker, years, thresh, provider, stmts, metrics, scorecard>>

\* every analysis is accounted for: aggregate and return
IndustryReturn ==
    /\ pc \in {"pool", "loop"}
    /\ \A n \in 1..Len(ind.status) : ind.status[n] = "collected"
    /\ outcome' = industry_response(impl, ind.industry, ind.tickers, ind.companies)
    /\ pc' = "returned"
    /\ UNCHANGED <<impl, ticker, years, thresh, provider, stmts, metrics, scorecard, ind>>

Industries == {"Robotics", "Semiconductors", "Biotech"}

InitIndustry ==
    /\ impl \in {"analysis", "app2"}
    /\ ticker = ""
    /\ years = MaxYears
    /\ thresh = DEFAULT_THRESHOLDS
    /\ provider = None
    /\ stmts = None
    /\ metrics = None
    /\ scorecard = <<>>
    /\ pc = "begin"
    /\ outcome = NoOutcome
    /\ \E industry \in Industries :
           \E profile \in [1..Len(Roster(industry)) -> Profiles] :
               ind = Run(industry, profile)

NextIndustry ==
    \/ IndustryBegin
    \/ \E n \in DOMAIN ind.status : TaskStart(n)
    \/ \E n \in DOMAIN ind.status : TaskFinish(n)
    \/ \E n \in DOMAIN ind.status : Collect(n)
    \/ \E n \in DOMAIN ind.status : AnalyzeNext(n)
    \/ IndustryReturn

SpecIndustry == InitIndustry /\ [][NextIndustry]_vars

\* IndustryAnalyzer.analyze with providers that may never answer.  The pool's
\* workers and the collecting thread keep running: whatever step is possible
\* is eventually taken.  as_completed(futures) is called without a timeout and
\* hands over done futures only, so result(timeout=20) never has to wait.
InitTimeout ==
    /\ impl = "analysis"
    /\ ticker = ""
    /\ years = MaxYears
    /\ thresh = DEFAULT_THRESHOLDS
    /\ provider = None
    /\ stmts = None
    /\ metrics = None
    /\ scorecard = <<>>
    /\ pc = "begin"
    /\ outcome = NoOutcome
    /\ \E industry \in Industries :
           \E profile \in [1..Len(Roster(industry)) -> {Strong, Partial, Down, Hung}] :
               ind = Run(industry, profile)

NextPool ==
    \/ IndustryBegin
    \/ \E n \in DOMAIN ind.status : TaskStart(n)
    \/ \E n \in DOMAIN ind.status : TaskFinish(n)
    \/ \E n \in DOMAIN ind.status : Collect(n)
    \/ IndustryReturn

SpecTimeout == InitTimeout /\ [][NextPool]_vars /\ WF_vars(NextPool)

\* The aggregators as functions of the list of constituent responses

MaxCompanies == 4   \* constituent responses handed to an aggregator

\* the responses the two company analyses give for the constituent profiles
Responses ==
    {AnalyzeCompany(i, "ABB", p, DEFAULT_THRESHOLDS, MaxYears) :
        i \in {"analysis", "app2"}, p \in {Strong, Weak, Partial}}

CompanyLists == UNION {[1..n -> Responses] : n \in 0..MaxCompanies}

InitAggregate ==
    /\ impl = "none"
    /\ ticker = ""
    /\ years = MaxYears
    /\ thresh = DEFAULT_THRESHOLDS
    /\ provider = None
    /\ stmts = None
    /\ metrics = None
    /\ scorecard = <<>>
    /\ pc = "aggregate"
    /\ outcome = NoOutcome
    /\ \E companies \in CompanyLists :
           ind = [Run("Robotics", <<>>) EXCEPT !.companies = companies]

AggregateWith(i) ==
    /\ pc = "aggregate"
    /\ impl' = i
    /\ scorecard' = Aggregate(i, ind.companies)
    /\ pc' = "aggregated"
    /\ UNCHANGED <<ticker, years, thresh, provider, stmts, metrics, outcome, ind>>

QuickScorecard == AggregateWith("analysis")
App2Aggregate == AggregateWith("app2")

NextAggregate == QuickScorecard \/ App2Aggregate

SpecAggregate == InitAggregate /\ [][NextAggregate]_vars

----------------------------------------------------------------------------
(* Threshold overrides: the merge, and the scorecard service's own merge *)

\* numeric override values are 0, 0.05, ... , MaxOverride * 0.05
MaxOverride == 2
OverrideValues == {Q(5 * v, 100) : v \in 0..MaxOverride} \cup {Text, True}

\* two known keys and one that is no threshold
OverrideKeys == {"rev_cagr_min", "roe_min", "pe_max"}
Overrides == UNION {[K -> OverrideValues] : K \in SUBSET OverrideKeys}

MetricsSample ==
    {Bundle(None, None, None, None, None, None, None),
     Bundle(Q(8, 100), Q(15, 100), Q(1, 2), Q(5, 1), Q(12, 100), None, None)}

\* thresh holds the override mapping of the request
InitThresholds ==
    /\ impl = "none"
    /\ ticker = ""
    /\ years = MaxYears
    /\ thresh \in Overrides
    /\ provider = None
    /\ stmts = None
    /\ metrics \in MetricsSample
    /\ scorecard = <<>>
    /\ pc = "merge"
    /\ outcome = NoOutcome
    /\ ind = IndIdle

\* the Threshold Set a merge produced, and the exception of the judging
Merged(set, exc) == [k |-> "thresholds", set |-> set, exc |-> exc]

\* merge_thresholds as the three generations call it
MergeThresholds ==
    /\ pc = "merge"
    /\ \E i \in {"analysis", "company", "app2"} : impl' = i
    /\ outcome' = Merged(merge_thresholds(thresh), "none")
    /\ pc' = "merged"
    /\ UNCHANGED <<ticker, years, thresh, provider, stmts, metrics, scorecard, ind>>

\* merging the merged set once more
MergeAgain ==
    /\ pc = "merged"
    /\ impl # "scorecard"
    /\ outcome' = Merged(merge_thresholds(outcome.set), "none")
    /\ pc' = "remerged"
    /\ UNCHANGED <<impl, ticker, years, thresh, provider, stmts, metrics, scorecard, ind>>

\* POST /api/scorecard: ScorecardService.build_scorecard on the raw overrides
\* of the request body
BuildScorecard ==
    /\ pc = "merge"
    /\ impl' = "scorecard"
    /\ \E r \in {build_scorecard(metrics, thresh, years)} :
           /\ scorecard' = (IF r.ok THEN r.v ELSE <<>>)
           /\ outcome' = Merged(DictMerge(DEFAULT_THRESHOLDS, thresh), r.exc)
    /\ pc' = "merged"
    /\ UNCHANGED <<ticker, years, thresh, provider, stmts, metrics, ind>>

NextThresholds == MergeThresholds \/ MergeAgain \/ BuildScorecard

SpecThresholds == InitThresholds /\ [][NextThresholds]_vars

----------------------------------------------------------------------------
(* Revenue growth: split_first_last and cagr on their own *)

MaxLen == 4
MaxLookback == 5

\* the values of the revenue observations and of direct calls of cagr
ObsValues == {-100, 0, 100, 200}

Observations(vals) == [i \in 1..Len(vals) |-> [t |-> i, v |-> vals[i]]]
SeriesInputs ==
    {None} \cup {Series(Observations(vals)) :
                   vals \in UNION {[1..len -> ObsValues] : len \in 0..MaxLen}}

CagrInputs ==
    {[first |-> first, last |-> last, n |-> n] :
        first \in {None} \cup {Q(v, 1) : v \in ObsValues},
        last \in {None} \cup {Q(v, 1) : v \in ObsValues},
        n \in {None} \cup {Q(y, 1) : y \in -1..MaxLookback}}

\* impl names the entry: "revenue_cagr" is split_first_last followed by cagr
\* on a revenue series (stmts), "cagr" a call of cagr on the values in metrics
InitGrowth ==
    /\ ticker = ""
    /\ thresh = DEFAULT_THRESHOLDS
    /\ provider = None
    /\ scorecard = <<>>
    /\ outcome = NoOutcome
    /\ ind = IndIdle
    /\ \/ /\ impl = "revenue_cagr"
          /\ pc = "split"
          /\ stmts \in SeriesInputs
          /\ years \in 1..MaxLookback
          /\ metrics = NoWindow
       \/ /\ impl = "cagr"
          /\ pc = "cagr"
          /\ stmts = None
          /\ years = 1
          /\ metrics \in CagrInputs

SplitFirstLast ==
    /\ pc = "split"
    /\ metrics' = split_first_last(stmts, years)
    /\ pc' = "cagr"
    /\ UNCHANGED <<impl, ticker, years, thresh, provider, stmts, scorecard, outcome, ind>>

Cagr ==
    /\ pc = "cagr"
    /\ outcome' = cagr(metrics.first, metrics.last, metrics.n)
    /\ pc' = "grown"
    /\ UNCHANGED <<impl, ticker, years, thresh, provider, stmts, metrics, scorecard, ind>>

NextGrowth == SplitFirstLast \/ Cagr

SpecGrowth == InitGrowth /\ [][NextGrowth]_vars

----------------------------------------------------------------------------
(* The balance-sheet rows of total debt, cash and equity *)

\* the row under the j-th name of a concept: absent, empty, or holding j
RowChoices(j) == {NoRow, AllNaN, Full([t \in 1..MaxPeriods |-> j])}

ResolveTables ==
    {None} \cup
    {BsTable(<<d1, d2, d3>>, <<c1, c2, c3>>, <<e1, e2>>) :
        d1 \in {NoRow, Full(One)}, d2 \in {NoRow, Full(Two)}, d3 \in {NoRow, Full(Three)},
        c1 \in RowChoices(1), c2 \in RowChoices(2), c3 \in RowChoices(3),
        e1 \in RowChoices(1), e2 \in RowChoices(2)}

InitResolve ==
    /\ impl = "none"
    /\ ticker = ""
    /\ years = MaxYears
    /\ thresh = DEFAULT_THRESHOLDS
    /\ provider = None
    /\ stmts \in {Data(None, bs) : bs \in ResolveTables}
    /\ metrics = None
    /\ scorecard = <<>>
    /\ pc = "resolve"
    /\ outcome = NoOutcome
    /\ ind = IndIdle

\* the three series as the derive stage holds them
Rows(total_debt, cash, equity) ==
    [total_debt |-> total_debt, cash |-> cash, equity |-> equity]

ResolveWith(i, rows) ==
    /\ pc = "resolve"
    /\ impl' = i
    /\ metrics' = rows
    /\ pc' = "resolved"
    /\ UNCHANGED <<ticker, years, thresh, provider, stmts, scorecard, outcome, ind>>

ResolveAnalysis ==
    ResolveWith("analysis", Rows(analysis_total_debt(stmts.bs), analysis_cash(stmts.bs),
                                 analysis_equity(stmts.bs)))

ResolveApp2 ==
    ResolveWith("app2", Rows(app2_total_debt(stmts.bs), app2_cash(stmts.bs),
                             app2_equity(stmts.bs)))

NextResolve == ResolveAnalysis \/ ResolveApp2

SpecResolve == InitResolve /\ [][NextResolve]_vars

----------------------------------------------------------------------------
(* The historical ROE series: utils/finance2.py and services/roe.py *)

\* Money is counted here in units of 1e-10, so that the `abs(...) < 1e-9` of
\* services/roe.py line 76 is a comparison with NearZeroUnits units; a ratio of
\* two amounts does not depend on the unit.
NearZeroUnits == 10

\* a float NaN as an observation of a series
NaNFloat == [k |-> "nan"]

\* series.dropna()
dropna(obs) == SelectSeq(obs, LAMBDA o : o.v # NaNFloat)

\* the periods of a series, and the value at a period it has
Index(obs) == {obs[i].t : i \in 1..Len(obs)}
At(obs, t) == obs[CHOOSE i \in 1..Len(obs) : obs[i].t = t].v

\* sorted(...) of a set of periods
RECURSIVE sorted(_)
sorted(S) ==
    IF S = {} THEN <<>>
    ELSE <<CHOOSE x \in S : \A y \in S : x <= y>>
         \o sorted(S \ {CHOOSE x \in S : \A y \in S : x <= y})

\* (eq_prev + eq_cur) / 2.0 and (ni_val / avg_eq) * 100.0
Mean2(a, b) == Q(a.n * b.d + b.n * a.d, 2 * a.d * b.d)
Percent(num, den) == Q(100 * num.n * den.d, num.d * den.n)

RoeItem(ts, roe_pct) == [date |-> ts, roe |-> roe_pct, y |-> roe_pct]

\* the loop of build_historical_roe, lines 118-133, from index i on
RECURSIVE roe_items(_, _, _, _)
roe_items(ni, eq, common, i) ==
    IF i > Len(common) THEN <<>>
    ELSE (IF Mean2(At(eq, common[i - 1]), At(eq, common[i])).n = 0 THEN <<>>
          ELSE <<RoeItem(common[i],
                         Percent(At(ni, common[i]),
                                 Mean2(At(eq, common[i - 1]), At(eq, common[i]))))>>)
         \o roe_items(ni, eq, common, i + 1)

\* lines 134-141: with a look-back, the items not older than the last one
\* minus `yrs` years; 0 stands for a look-back of None or 0
cut_off(items, yrs) ==
    IF yrs # 0 /\ items # <<>>
    THEN SelectSeq(items, LAMBDA it : it.date >= items[Len(items)].date - yrs)
    ELSE items

\* utils/finance2.py build_historical_roe
build_historical_roe(net_income, equity, yrs) ==
    IF IsNone(net_income) \/ IsNone(equity) THEN <<>>
    ELSE IF Cardinality(Index(dropna(net_income.s)) \cap Index(dropna(equity.s))) < 2
    THEN <<>>
    ELSE cut_off(roe_items(dropna(net_income.s), dropna(equity.s),
                           sorted(Index(dropna(net_income.s)) \cap Index(dropna(equity.s))),
                           2),
                 yrs)

\* services/roe.py _calc, lines 75-78
calc(ni_val, avg_equity) ==
    IF avg_equity = NaNFloat THEN None
    ELSE IF AbsInt(avg_equity.n) < NearZeroUnits * avg_equity.d THEN None
    ELSE ratio_safe(ni_val, avg_equity)

\* the average that takes the equity of the first row for its missing
\* previous equity
avg_equity_unshifted(eq, common, i) ==
    IF i = 1 THEN At(eq, common[i]) ELSE Mean2(At(eq, common[i - 1]), At(eq, common[i]))

\* df['avg_equity'] of the aligned row i: NaN for the first row (shift(1))
avg_equity(eq, common, i) ==
    IF i = 1 THEN NaNFloat ELSE Mean2(At(eq, common[i - 1]), At(eq, common[i]))

\* lines 80-93: the records of the rows whose roe_ratio is not None
RECURSIVE roe_records(_, _, _, _)
roe_records(ni, eq, common, i) ==
    IF i > Len(common) THEN <<>>
    ELSE (IF IsNone(calc(At(ni, common[i]), avg_equity(eq, common, i))) THEN <<>>
          ELSE <<[date |-> common[i],
                  roe  |-> Percent(At(ni, common[i]), avg_equity(eq, common, i))]>>)
         \o roe_records(ni, eq, common, i + 1)

\* services/roe.py calculate_historical_roe
calculate_historical_roe(net_income, equity) ==
    IF IsNone(net_income) \/ IsNone(equity) THEN <<>>
    ELSE IF Len(net_income.s) = 0 \/ Len(equity.s) = 0 THEN <<>>
    ELSE roe_records(dropna(net_income.s), dropna(equity.s),
                     sorted(Index(dropna(net_income.s)) \cap Index(dropna(equity.s))), 1)

MaxDates == 3

\* a series given newest first: per period no observation, NaN, or a value
RECURSIVE Listed(_, _)
Listed(f, t) ==
    IF t = 0 THEN <<>>
    ELSE (IF IsNone(f[t]) THEN <<>> ELSE <<[t |-> t, v |-> f[t]]>>)
         \o Listed(f, t - 1)

RoeSeries(vals) ==
    {None} \cup {Series(Listed(f, MaxDates)) :
                   f \in [1..MaxDates -> {None, NaNFloat} \cup {Q(v, 1) : v \in vals}]}

\* stmts holds the two series handed to the ROE functions, years the look-back
InitRoe ==
    /\ impl = "none"
    /\ ticker = ""
    /\ years \in {0, 1}
    /\ thresh = DEFAULT_THRESHOLDS
    /\ provider = None
    /\ stmts \in {[net_income |-> ni, equity |-> eq] :
                     ni \in RoeSeries({100}), eq \in RoeSeries({4, 20, -20})}
    /\ metrics = None
    /\ scorecard = <<>>
    /\ pc = "roe"
    /\ outcome = NoOutcome
    /\ ind = IndIdle

RoeWith(i, series) ==
    /\ pc = "roe"
    /\ impl' = i
    /\ outcome' = [k |-> "roe", series |-> series]
    /\ pc' = "charted"
    /\ UNCHANGED <<ticker, years, thresh, provider, stmts, metrics, scorecard, ind>>

BuildHistoricalRoe ==
    RoeWith("finance2", build_historical_roe(stmts.net_income, stmts.equity, years))

CalculateHistoricalRoe ==
    RoeWith("roe", calculate_historical_roe(stmts.net_income, stmts.equity))

NextRoe == BuildHistoricalRoe \/ CalculateHistoricalRoe

SpecRoe == InitRoe /\ [][NextRoe]_vars

----------------------------------------------------------------------------
(* The scorecard ROE next to the two historical ROE series *)

\* the float values of a statement row, as the series builders read them
Floats(series) ==
    IF IsNone(series) THEN None
    ELSE Series([i \in 1..Len(series.s) |-> [t |-> series.s[i].t, v |-> Q(series.s[i].v, 1)]])

\* a statement row as get_row returns it: oldest first, no NaN, periods among
\* 1..MaxDates
RECURSIVE Observed(_, _)
Observed(f, t) ==
    IF t > MaxDates THEN <<>>
    ELSE (IF f[t] = 0 THEN <<>> ELSE <<[t |-> t, v |-> f[t]]>>) \o Observed(f, t + 1)

\* 0 marks a period without observation; amounts are in the units of
\* NearZeroUnits
StatementRows(vals) ==
    {None} \cup {Series(Observed(f, 1)) : f \in [1..MaxDates -> {0} \cup vals]}

NotRun == [k |-> "not run"]

Records(items) == [k |-> "records", items |-> items]

\* stmts holds the two statement rows, outcome what each function returned
InitConvention ==
    /\ impl = "none"
    /\ ticker = ""
    /\ years = 0
    /\ thresh = DEFAULT_THRESHOLDS
    /\ provider = None
    /\ stmts \in {[net_income |-> ni, equity |-> eq] :
                     ni \in StatementRows({100, 50}), eq \in StatementRows({4, 1000})}
    /\ metrics = None
    /\ scorecard = <<>>
    /\ pc = "roe"
    /\ outcome = [k |-> "roe", scorecard |-> NotRun, built |-> NotRun, calculated |-> NotRun]
    /\ ind = IndIdle

ConventionWith(o) ==
    /\ pc = "roe"
    /\ outcome' = o
    /\ UNCHANGED <<impl, ticker, years, thresh, provider, stmts, metrics, scorecard, pc, ind>>

\* services/analysis/company.py line 71, services/company.py line 43
ScorecardRoe ==
    /\ outcome.scorecard = NotRun
    /\ ConventionWith([outcome EXCEPT
          !.scorecard = [k |-> "metric", v |-> calculate_roe(stmts.net_income, stmts.equity)]])

\* build_historical_roe without a look-back
BuiltSeries ==
    /\ outcome.built = NotRun
    /\ ConventionWith([outcome EXCEPT
          !.built = Records(build_historical_roe(Floats(stmts.net_income),
                                                 Floats(stmts.equity), years))])

CalculatedSeries ==
    /\ outcome.calculated = NotRun
    /\ ConventionWith([outcome EXCEPT
          !.calculated = Records(calculate_historical_roe(Floats(stmts.net_income),
                                                          Floats(stmts.equity)))])

NextConvention == ScorecardRoe \/ BuiltSeries \/ CalculatedSeries

SpecConvention == InitConvention /\ [][NextConvention]_vars

----------------------------------------------------------------------------
(* The ROE chart pipeline of services/roe.py *)

\* A DataFrame: its column names and its rows.  A row carries every column
\* the pipeline knows; a column the frame does not have holds None.  A date is
\* a day number or NaT, a raw ROE a float of percentage points or NaNFloat;
\* the clamped values of the inputs are whole percentage points.
Frame(cols, rows) == [k |-> "frame", cols |-> cols, rows |-> rows]

Day(n) == [k |-> "day", n |-> n]

NaT == [k |-> "NaT"]

RawRow(tkr, date, roe) ==
    [ticker |-> tkr, date |-> date, roe |-> roe, clamped_flag |-> None,
     roe_clamped |-> None, roe_roll_mean |-> None, roe_roll_std |-> None,
     z_score |-> None, outlier_flag |-> None]

\* the entities, in the order sort_values / groupby put their tickers
Entities == <<"AAA", "BBB">>

\* RoeConfig defaults, lines 114, 127, 128
rolling_window_years == 3
clamp_min == -200
clamp_max == 200

\* the days the rolling window counts per year, line 160
YearDays == 365

\* out['roe'].clip(clamp_min, clamp_max)
clip(v, lo, hi) == IF v < lo THEN lo ELSE IF v > hi THEN hi ELSE v

\* dropna(subset=['date', 'ticker', 'roe']); every input row has a ticker
dropna_rows(rows) ==
    SelectSeq(rows, LAMBDA r : r.date # NaT /\ r.roe # NaNFloat)

\* drop_duplicates(subset=['date', 'ticker']): the first row of each pair stays
RECURSIVE drop_duplicates(_, _)
drop_duplicates(rows, i) ==
    IF i > Len(rows) THEN <<>>
    ELSE (IF \E j \in 1..(i - 1) : rows[j].date = rows[i].date /\ rows[j].ticker = rows[i].ticker
          THEN <<>> ELSE <<rows[i]>>)
         \o drop_duplicates(rows, i + 1)

\* the rows of one ticker, in frame order
Group(rows, tkr) == SelectSeq(rows, LAMBDA r : r.ticker = tkr)

\* rows with distinct dates, ascending by date
RECURSIVE by_date(_)
by_date(rows) ==
    IF rows = <<>> THEN <<>>
    ELSE <<rows[CHOOSE i \in 1..Len(rows) : \A j \in 1..Len(rows) : rows[i].date.n <= rows[j].date.n]>>
         \o by_date(SelectSeq(rows, LAMBDA r :
                \E j \in 1..Len(rows) : rows[j].date.n < r.date.n))

\* sort_values(['ticker', 'date'])
RECURSIVE sort_values(_, _)
sort_values(rows, e) ==
    IF e > Len(Entities) THEN <<>>
    ELSE by_date(Group(rows, Entities[e])) \o sort_values(rows, e + 1)

\* lines 154-155
Clamped(r) ==
    [r EXCEPT !.clamped_flag = (r.roe.n < clamp_min * r.roe.d) \/ (r.roe.n > clamp_max * r.roe.d),
              !.roe_clamped = clip(r.roe.n \div r.roe.d, clamp_min, clamp_max)]

\* prepare_roe_data with the default configuration (no ticker, start or end
\* filter)
prepare_roe_data(df) ==
    IF ~({"date", "ticker", "roe"} \subseteq df.cols)
    THEN Raise("ValueError: Missing required columns")
    ELSE Ok(Frame(df.cols \cup {"clamped_flag", "roe_clamped"},
                  [i \in 1..Len(sort_values(drop_duplicates(dropna_rows(df.rows), 1), 1)) |->
                     Clamped(sort_values(drop_duplicates(dropna_rows(df.rows), 1), 1)[i])]))

\* sums over grp['roe_clamped']
RECURSIVE SumClamped(_)
SumClamped(rows) == IF rows = <<>> THEN 0 ELSE Head(rows).roe_clamped + SumClamped(Tail(rows))

RECURSIVE SumSqClamped(_)
SumSqClamped(rows) ==
    IF rows = <<>> THEN 0
    ELSE Head(rows).roe_clamped * Head(rows).roe_clamped + SumSqClamped(Tail(rows))

\* n * n * the population variance of the group: std(ddof=0) squared
VarTimesNN(grp) == Len(grp) * SumSqClamped(grp) - SumClamped(grp) * SumClamped(grp)

\* n * (value - mu)
DevTimesN(x, grp) == Len(grp) * x - SumClamped(grp)

\* The statistics are 64-bit floats: the computed mean, standard deviation and
\* z carry a rounding error whose direction depends on the values and on the
\* order of the summation.  The model computes exactly and takes the
\* direction of the error, err, as an input of the call: 0 where the floats
\* are exact, 1 or -1 where they come out above or below.
Rounding == {-1, 0, 1}

\* A z-score (x - mu) / sigma is kept as its sign and its square.  Of a group
\* of equal values the exact standard deviation is 0: computed exactly, sigma
\* is 1e-9 and every x - mu is 0; with a rounded mean every x - mu is the
\* same tiny number, the standard deviation is its absolute value, and every
\* z is 1 or every z is -1.  The mean of one value or of two equal values is
\* exact.
ZScore(x, grp, err) ==
    IF VarTimesNN(grp) = 0
    THEN IF Len(grp) < 3 THEN [sign |-> 0, sq |-> Q(0, 1)]
         ELSE [sign |-> -err, sq |-> Q(err * err, 1)]
    ELSE [sign |-> IF DevTimesN(x, grp) > 0 THEN 1
                   ELSE IF DevTimesN(x, grp) < 0 THEN -1 ELSE 0,
          sq   |-> Q(DevTimesN(x, grp) * DevTimesN(x, grp), VarTimesNN(grp))]

\* z.abs() > 3: a z of exactly 3 is computed as 3 or as its neighbour above
\* or below
ExceedsThree(z, err) == z.sq.n > 9 * z.sq.d \/ (z.sq.n = 9 * z.sq.d /\ err = 1)

\* the statistics taken over the whole frame instead of the row's group
FlaggedFrameWide(r, rows, err) ==
    [r EXCEPT !.z_score = ZScore(r.roe_clamped, rows, err),
              !.outlier_flag = ExceedsThree(ZScore(r.roe_clamped, rows, err), err)]

\* lines 178-185 for one row: z and the flag from the row's own group
Flagged(r, rows, err) ==
    [r EXCEPT !.z_score = ZScore(r.roe_clamped, Group(rows, r.ticker), err),
              !.outlier_flag = ExceedsThree(ZScore(r.roe_clamped, Group(rows, r.ticker), err),
                                            err)]

\* flag_outliers: groupby raises KeyError without the columns; pd.concat of
\* no groups raises ValueError
flag_outliers(df, err) ==
    IF ~({"ticker", "roe_clamped"} \subseteq df.cols) THEN Raise("KeyError")
    ELSE IF df.rows = <<>> THEN Raise("ValueError: No objects to concatenate")
    ELSE Ok(Frame(df.cols \cup {"z_score", "outlier_flag"},
                  [i \in 1..Len(df.rows) |-> Flagged(df.rows[i], df.rows, err)]))

\* the tickers of the rows in the order of their first appearance:
\* groupby('ticker', sort=False)
RECURSIVE appearance(_)
appearance(rows) ==
    IF rows = <<>> THEN <<>>
    ELSE <<Head(rows).ticker>>
         \o appearance(SelectSeq(Tail(rows), LAMBDA r : r.ticker # Head(rows).ticker))

\* min_periods=max(2, years)
min_periods(yrs) == IF yrs > 2 THEN yrs ELSE 2

\* the rows of the date-sorted group g inside the window of its row i:
\* rolling(window="<years * 365>D") is open on the left, closed on the right
in_window(g, i, yrs) ==
    SelectSeq(g, LAMBDA r : r.date.n > g[i].date.n - yrs * YearDays /\ r.date.n <= g[i].date.n)

\* roll.mean() and roll.std(ddof=0) of one window; the standard deviation is
\* kept as its square
roll_of(w, yrs) ==
    IF Len(w) < min_periods(yrs) THEN [mean |-> NaNFloat, std |-> NaNFloat]
    ELSE [mean |-> Q(SumClamped(w), Len(w)),
          std  |-> [sq |-> Q(VarTimesNN(w), Len(w) * Len(w))]]

\* _rolling_calendar_window: the statistics of the date-sorted group are put
\* back by position (the dates of a prepared group are distinct)
rolling_calendar_window(group, yrs) ==
    [p \in 1..Len(group) |->
        [group[p] EXCEPT
           !.roe_roll_mean = roll_of(in_window(by_date(group), p, yrs), yrs).mean,
           !.roe_roll_std = roll_of(in_window(by_date(group), p, yrs), yrs).std]]

RECURSIVE concat_parts(_, _, _)
concat_parts(rows, tickers, yrs) ==
    IF tickers = <<>> THEN <<>>
    ELSE rolling_calendar_window(Group(rows, Head(tickers)), yrs)
         \o concat_parts(rows, Tail(tickers), yrs)

\* compute_rolling_metrics; pd.concat of no parts raises ValueError
compute_rolling_metrics(df, window_years) ==
    IF "roe_clamped" \notin df.cols THEN Raise("ValueError: Expected 'roe_clamped'")
    ELSE IF df.rows = <<>> THEN Raise("ValueError: No objects to concatenate")
    ELSE Ok(Frame(df.cols \cup {"roe_roll_mean", "roe_roll_std"},
                  concat_parts(df.rows, appearance(df.rows), window_years)))

\* the checks plot_roe makes before it draws; the figure itself is not modelled
plot_roe(df) ==
    IF "roe_roll_mean" \notin df.cols THEN Raise("ValueError: Missing rolling metrics")
    ELSE IF "outlier_flag" \notin df.cols THEN Raise("ValueError: Missing outlier flags")
    ELSE Ok(df)

\* lines 422-424 on the outcome of the stage before: an exception passes through
plot_flagged(flagged) == IF ~flagged.ok THEN flagged ELSE plot_roe(flagged.v)

flag_rolled(rolled, err) ==
    IF ~rolled.ok THEN rolled
    ELSE CHOOSE r \in {plot_flagged(flagged) : flagged \in {flag_outliers(rolled.v, err)}} : TRUE

\* the stages after prepare_roe_data: rolling metrics, outlier flags, the plot
\* (fit_trend reads the flagged frame and changes nothing)
chart_stages(cleaned, yrs, err) ==
    CHOOSE r \in {flag_rolled(rolled, err) :
                    rolled \in {compute_rolling_metrics(cleaned, yrs)}} : TRUE

\* the chart built from the frame as it was handed in
build_roe_chart_unprepared(df, yrs, err) == chart_stages(df, yrs, err)

\* build_roe_chart with the default configuration
build_roe_chart(df, yrs, err) ==
    CHOOSE r \in {IF ~cleaned.ok THEN cleaned ELSE chart_stages(cleaned.v, yrs, err) :
                    cleaned \in {prepare_roe_data(df)}} : TRUE

\* Inputs of the outlier stage: entity AAA has up to MaxObs yearly
\* observations, a few of them far from the rest, entity BBB up to two.
MaxObs == 11

\* n rows of one entity on consecutive year ends: the first k hold far, the
\* others base
Yearly(tkr, n, k, base, far) ==
    [i \in 1..n |-> RawRow(tkr, Day(YearDays * i), Q(IF i <= k THEN far ELSE base, 1))]

OutlierFrames ==
    {Frame({"date", "ticker", "roe"}, IF aFirst THEN a \o b ELSE b \o a) :
        a \in {Yearly("AAA", n, k, base, far) :
                 n \in 1..MaxObs, k \in 0..2, base \in {0, 100}, far \in {500, -300}},
        b \in {Yearly("BBB", n, 1, 0, -300) : n \in 0..2},
        aFirst \in BOOLEAN}

\* stmts holds the frame the stages are applied to, years the rolling window
InitOutliers ==
    /\ impl = "roe"
    /\ ticker = ""
    /\ years = rolling_window_years
    /\ thresh = DEFAULT_THRESHOLDS
    /\ provider = None
    /\ stmts \in OutlierFrames
    /\ metrics = None
    /\ scorecard = <<>>
    /\ pc = "frame"
    /\ outcome = NoOutcome
    /\ ind = IndIdle

\* one stage applied to the frame: its result replaces the frame, its
\* exception ends the run
StageWith(name, result) ==
    /\ pc = "frame"
    /\ IF result.ok
       THEN stmts' = result.v /\ pc' = "frame" /\ outcome' = [k |-> "stage", name |-> name]
       ELSE stmts' = stmts /\ pc' = "raised" /\ outcome' = [k |-> "raised", name |-> name, exc |-> result.exc]
    /\ UNCHANGED <<impl, ticker, years, thresh, provider, metrics, scorecard, ind>>

PrepareRoeData == \E r \in {prepare_roe_data(stmts)} : StageWith("prepare_roe_data", r)

FlagOutliers ==
    \E err \in Rounding : \E r \in {flag_outliers(stmts, err)} : StageWith("flag_outliers", r)

NextOutliers == PrepareRoeData \/ FlagOutliers

SpecOutliers == InitOutliers /\ [][NextOutliers]_vars

\* Inputs of the whole pipeline: entity AAA reports on up to MaxRows of the
\* dates of ReportDays (fiscal years are not all 365 days long, and one year
\* is missing), entity BBB has no row, one row, or one row without a value;
\* a frame may lack the roe column.
MaxRows == 4

ReportDays == {365, 730, 1096, 1461, 2557}

RECURSIVE Reports(_, _, _)
Reports(days, low, high) ==
    IF days = {} THEN <<>>
    ELSE <<RawRow("AAA", Day(CHOOSE d \in days : \A e \in days : d >= e),
                  Q(IF Cardinality(days) % 2 = 1 THEN high ELSE low, 1))>>
         \o Reports(days \ {CHOOSE d \in days : \A e \in days : d >= e}, low, high)

ChartFrames ==
    {Frame(cols, b \o a) :
        a \in {Reports(days, 0, high) :
                 days \in {D \in SUBSET ReportDays : Cardinality(D) <= MaxRows},
                 high \in {100, 500}},
        b \in {<<>>, <<RawRow("BBB", Day(730), Q(50, 1))>>,
               <<RawRow("BBB", Day(730), NaNFloat)>>,
               <<RawRow("AAA", NaT, Q(50, 1))>>},
        cols \in {{"date", "ticker", "roe"}, {"date", "ticker"}}}

InitChart ==
    /\ impl = "roe"
    /\ ticker = ""
    /\ years \in {1, rolling_window_years}
    /\ thresh = DEFAULT_THRESHOLDS
    /\ provider = None
    /\ stmts \in ChartFrames
    /\ metrics = None
    /\ scorecard = <<>>
    /\ pc = "frame"
    /\ outcome = NoOutcome
    /\ ind = IndIdle

ComputeRollingMetrics ==
    \E r \in {compute_rolling_metrics(stmts, years)} : StageWith("compute_rolling_metrics", r)

PlotRoe == \E r \in {plot_roe(stmts)} : StageWith("plot_roe", r)

\* build_roe_chart on a frame no stage has touched
BuildRoeChart ==
    /\ outcome = NoOutcome
    /\ \E err \in Rounding :
          \E r \in {build_roe_chart(stmts, years, err)} : StageWith("build_roe_chart", r)

NextChart ==
    PrepareRoeData \/ ComputeRollingMetrics \/ FlagOutliers \/ PlotRoe \/ BuildRoeChart

SpecChart == InitChart /\ [][NextChart]_vars

----------------------------------------------------------------------------
(* The threshold objects during analysis *)

\* The dict objects the calls can reach: the class attribute
\* ThresholdManager.DEFAULT_THRESHOLDS, the default_thresholds of the
\* ScorecardService instance, the caller's override mapping, and the Threshold
\* Set (None until a merge has returned it).  A call is modelled by the
\* objects it leaves behind.
Objects(defaults, service, overrides, set) ==
    [defaults |-> defaults, service |-> service, overrides |-> overrides, set |-> set]

\* a merge whose `out` is the defaults object itself instead of a copy of it
merge_thresholds_call_in_place(heap, overrides) ==
    [heap EXCEPT !.defaults = merge_thresholds(overrides),
                 !.set = merge_thresholds(overrides)]

\* merge_thresholds as a call: `out = dict(cls.DEFAULT_THRESHOLDS)` is a new
\* object, the stores of line 24 go to it, and it is returned
merge_thresholds_call(heap, overrides) ==
    [heap EXCEPT !.set = merge_thresholds(overrides)]

\* from_params(**kwargs): the comprehension of line 31 builds a new dict of
\* the arguments that are not None
from_params_call(heap, kwargs) ==
    merge_thresholds_call(heap, [key \in {q \in DOMAIN kwargs : kwargs[q] # None} |-> kwargs[key]])

\* build_scorecard as a call: `{**self.default_thresholds, **overrides}` is a
\* new dict, which the item builders only read
build_scorecard_call(heap, overrides) == heap

\* thresh keeps the override mapping as the caller wrote it, stmts holds the
\* objects, ind the pool workers that have run their task
InitFrame ==
    /\ impl = "analysis"
    /\ ticker = "NVDA"
    /\ years = MaxYears
    /\ thresh \in Overrides
    /\ provider = Strong
    /\ stmts = Objects(DEFAULT_THRESHOLDS, DEFAULT_THRESHOLDS, thresh, None)
    /\ metrics \in MetricsSample
    /\ scorecard = <<>>
    /\ pc = "frame"
    /\ outcome = NoOutcome
    /\ ind = [workers |-> {}]

FrameStep(heap, sc, out, workers) ==
    /\ pc = "frame"
    /\ stmts' = heap
    /\ scorecard' = sc
    /\ outcome' = out
    /\ ind' = [workers |-> workers]
    /\ UNCHANGED <<impl, ticker, years, thresh, provider, metrics, pc>>

MergeCall ==
    /\ stmts.set = None
    /\ FrameStep(merge_thresholds_call(stmts, stmts.overrides), scorecard,
                 [k |-> "call", name |-> "merge_thresholds"], ind.workers)

FromParamsCall ==
    /\ stmts.set = None
    /\ FrameStep(from_params_call(stmts, stmts.overrides), scorecard,
                 [k |-> "call", name |-> "from_params"], ind.workers)

\* build_scorecard on the Threshold Set, or on the raw overrides as
\* POST /api/scorecard hands them over
BuildScorecardCall ==
    \E o \in {stmts.overrides} \cup (IF stmts.set = None THEN {} ELSE {stmts.set}) :
        \E r \in {build_scorecard(metrics, o, years)} :
            FrameStep(build_scorecard_call(stmts, o), IF r.ok THEN r.v ELSE <<>>,
                      [k |-> "call", name |-> "build_scorecard"], ind.workers)

\* a company analysis under the Threshold Set
CompanyCall ==
    /\ stmts.set # None
    /\ \E r \in {AnalyzeCompany(impl, ticker, provider, stmts.set, years)} :
          FrameStep(stmts, IF r.k = "returned" THEN r.scorecard ELSE <<>>,
                    [k |-> "call", name |-> "analyze"], ind.workers)

\* a pool worker of an industry analysis runs its company analysis; all
\* workers share the Threshold Set
WorkerCall(w) ==
    /\ stmts.set # None
    /\ w \notin ind.workers
    /\ \E r \in {AnalyzeCompany(impl, ticker, provider, stmts.set, years)} :
          FrameStep(stmts, scorecard, [k |-> "call", name |-> "worker"],
                    ind.workers \cup {w})

NextFrame ==
    \/ MergeCall
    \/ FromParamsCall
    \/ BuildScorecardCall
    \/ CompanyCall
    \/ \E w \in 1..PoolCap : WorkerCall(w)

SpecFrame == InitFrame /\ [][NextFrame]_vars

----------------------------------------------------------------------------
(* The ticker cache: services/analysis/cache.py and services/analyzer2.py *)

\* TickerCache(ttl_seconds=300), cleanup(max_age_seconds=600)
ttl_seconds == 300
max_age_seconds == 600

\* Bounds: the clock advances in steps of TickSeconds up to MaxTicks steps
TickSeconds == 300
MaxTicks == 3

CacheKeys == {"AAA", "BBB"}

\* self._cache: a dict, which keeps its keys in insertion order; an entry is
\* the pair (data, timestamp) under its key
Entry(key, data, ts) == [key |-> key, data |-> data, timestamp |-> ts]

Holds(cache, key) == \E n \in 1..Len(cache) : cache[n].key = key

Lookup(cache, key) ==
    IF Holds(cache, key) THEN cache[CHOOSE n \in 1..Len(cache) : cache[n].key = key]
    ELSE None

\* self._cache[key] = (data, ts): an existing key keeps its place
Put(cache, key, data, ts) ==
    IF Holds(cache, key)
    THEN [n \in 1..Len(cache) |-> IF cache[n].key = key THEN Entry(key, data, ts) ELSE cache[n]]
    ELSE Append(cache, Entry(key, data, ts))

\* del self._cache[key]
Del(cache, key) == SelectSeq(cache, LAMBDA e : e.key # key)

\* get_yf_ticker(ticker): the provider object made at the time of the call
get_yf_ticker(tkr, clock) == [ticker |-> tkr, fetched |-> clock]

\* line 20 with <= in the place of <
is_fresh_inclusive(now, timestamp) == now - timestamp <= ttl_seconds

\* line 20
is_fresh(now, timestamp) == now - timestamp < ttl_seconds

\* line 33
is_stale(now, timestamp, max_age) == now - timestamp > max_age

\* The thread inside get: its position, its locals, and for the record what it
\* found (seen), whether it called the provider, and the cache around its store
IdleGetter ==
    [pc |-> "idle", ticker |-> "", now |-> 0, data |-> None, seen |-> None,
     called |-> FALSE, before |-> <<>>, after |-> <<>>]

\* The thread inside cleanup: its position and locals (the iterator of the
\* comprehension is its index i and the dict size len0 it started with), the
\* entries it deleted, the exception it ended with
IdleSweeper ==
    [pc |-> "idle", now |-> 0, max_age |-> 0, i |-> 0, len0 |-> 0, stale_keys |-> <<>>,
     evicted |-> <<>>, exc |-> "none"]

\* stmts holds self._cache, years the clock in seconds, ind the threads.
\* A thread may be suspended at a call and at the back-edge of a loop.
InitCache ==
    /\ impl = "none"
    /\ ticker = ""
    /\ years = 0
    /\ thresh = DEFAULT_THRESHOLDS
    /\ provider = None
    /\ stmts = <<>>
    /\ metrics = None
    /\ scorecard = <<>>
    /\ pc = "cache"
    /\ outcome = NoOutcome
    /\ ind = [getter |-> IdleGetter, sweeper |-> IdleSweeper]

CacheStep(cache, clock, threads) ==
    /\ pc = "cache"
    /\ stmts' = cache
    /\ years' = clock
    /\ ind' = threads
    /\ UNCHANGED <<impl, ticker, thresh, provider, metrics, scorecard, pc, outcome>>

Tick ==
    /\ years < MaxTicks * TickSeconds
    /\ CacheStep(stmts, years + TickSeconds, ind)

\* line 17: now = time.time()
GetCall(tkr) ==
    /\ ind.getter.pc = "idle"
    /\ CacheStep(stmts, years,
                 [ind EXCEPT !.getter = [IdleGetter EXCEPT !.pc = "called",
                                                               !.ticker = tkr,
                                                               !.now = years]])

\* lines 18-21: a fresh entry is returned, otherwise the fetch begins
GetCheck ==
    /\ ind.getter.pc = "called"
    /\ \E e \in {Lookup(stmts, ind.getter.ticker)} :
          CacheStep(stmts, years,
              [ind EXCEPT !.getter =
                  IF e # None /\ is_fresh(ind.getter.now, e.timestamp)
                  THEN [@ EXCEPT !.pc = "returned", !.seen = e, !.data = e.data]
                  ELSE [@ EXCEPT !.pc = "fetching", !.seen = e]])

\* line 24: data = get_yf_ticker(ticker)
GetFetch ==
    /\ ind.getter.pc = "fetching"
    /\ CacheStep(stmts, years,
          [ind EXCEPT !.getter =
              [@ EXCEPT !.pc = "fetched", !.called = TRUE,
                        !.data = get_yf_ticker(ind.getter.ticker, years)]])

\* lines 25-26: self._cache[ticker] = (data, now); return data
GetStore ==
    /\ ind.getter.pc = "fetched"
    /\ \E c \in {Put(stmts, ind.getter.ticker, ind.getter.data, ind.getter.now)} :
          CacheStep(c, years,
              [ind EXCEPT !.getter =
                  [@ EXCEPT !.pc = "returned", !.before = stmts, !.after = c]])

\* the caller has the data; the thread may call get again
GetReturn ==
    /\ ind.getter.pc = "returned"
    /\ CacheStep(stmts, years, [ind EXCEPT !.getter = IdleGetter])

\* line 30: now = time.time()
CleanupCall(max_age) ==
    /\ ind.sweeper.pc = "idle"
    /\ CacheStep(stmts, years,
          [ind EXCEPT !.sweeper = [IdleSweeper EXCEPT !.pc = "scan", !.now = years,
                                                      !.max_age = max_age]])

\* lines 31-34, one turn of the comprehension over self._cache.items(): the
\* iterator raises RuntimeError when the dict has changed its size
CleanupScan ==
    /\ ind.sweeper.pc = "scan"
    /\ \E len0 \in {IF ind.sweeper.i = 0 THEN Len(stmts) ELSE ind.sweeper.len0},
          i \in {IF ind.sweeper.i = 0 THEN 1 ELSE ind.sweeper.i} :
          CacheStep(stmts, years,
              [ind EXCEPT !.sweeper =
                  IF Len(stmts) # len0
                  THEN [@ EXCEPT !.pc = "raised", !.exc = "RuntimeError"]
                  ELSE IF i > Len(stmts)
                  THEN [@ EXCEPT !.pc = "delete", !.i = i, !.len0 = len0]
                  ELSE [@ EXCEPT !.i = i + 1, !.len0 = len0,
                                 !.stale_keys =
                                     IF is_stale(ind.sweeper.now, stmts[i].timestamp,
                                                 ind.sweeper.max_age)
                                     THEN Append(@, stmts[i].key) ELSE @]])

\* lines 35-36, one turn of the loop: del self._cache[k]
CleanupDelete ==
    /\ ind.sweeper.pc = "delete"
    /\ IF ind.sweeper.stale_keys = <<>>
       THEN CacheStep(stmts, years, [ind EXCEPT !.sweeper.pc = "returned"])
       ELSE IF ~Holds(stmts, Head(ind.sweeper.stale_keys))
       THEN CacheStep(stmts, years,
                [ind EXCEPT !.sweeper = [@ EXCEPT !.pc = "raised", !.exc = "KeyError"]])
       ELSE CacheStep(Del(stmts, Head(ind.sweeper.stale_keys)), years,
                [ind EXCEPT !.sweeper =
                    [@ EXCEPT !.stale_keys = Tail(@),
                              !.evicted = Append(@, Lookup(stmts, Head(ind.sweeper.stale_keys)))]])

\* services/analyzer2.py cleanup_cache: _analyzer.cleanup_cache(max_age_seconds),
\* an attribute FinancialAnalyzer does not have
cleanup_cache ==
    /\ ind.sweeper.pc = "idle"
    /\ CacheStep(stmts, years,
          [ind EXCEPT !.sweeper = [IdleSweeper EXCEPT !.pc = "raised",
                                                      !.exc = "AttributeError"]])

\* the sweep is over; the next one may begin
CleanupReturn ==
    /\ ind.sweeper.pc \in {"returned", "raised"}
    /\ CacheStep(stmts, years, [ind EXCEPT !.sweeper = IdleSweeper])

NextCache ==
    \/ Tick
    \/ \E tkr \in CacheKeys : GetCall(tkr)
    \/ GetCheck
    \/ GetFetch
    \/ GetStore
    \/ GetReturn
    \/ CleanupCall(max_age_seconds)
    \/ CleanupScan
    \/ CleanupDelete
    \/ cleanup_cache
    \/ CleanupReturn

SpecCache == InitCache /\ [][NextCache]_vars

----------------------------------------------------------------------------
(* Properties of the scorecard builders and of the company analysis *)

\* the ids the builders give the score item of a metric
IdsOf(key) ==
    IF key = "revenue_cagr" THEN {"rev_cagr"}
    ELSE IF key = "operating_margin" THEN {"op_margin"}
    ELSE IF key = "net_debt_to_equity" THEN {"nd_eq"}
    ELSE IF key = "interest_coverage" THEN {"interest_cover", "int_cover"}
    ELSE {"roe"}

ItemsFor(sc, key) == {i \in 1..Len(sc) : sc[i].id \in IdsOf(key)}

\* the verdict the threshold comparison gives a present value
Judged(key, v, th) ==
    IF (IF key = "net_debt_to_equity" THEN LE(v, ThresholdOf(th, key))
        ELSE GE(v, ThresholdOf(th, key)))
    THEN "green" ELSE "red"

\* C1: a metric whose value is None gets a score item with verdict amber and
\* no value, whatever the threshold.
C1_AbsentMetricIsAmber ==
    pc = "scored" =>
        \A key \in MetricKeys :
            IsNone(metrics[key]) =>
                \E i \in ItemsFor(scorecard, key) :
                    scorecard[i].verdict = "amber" /\ scorecard[i].value = None

\* C2: a metric whose value is present gets green exactly when the value is
\* >= its threshold (<= for net debt / equity) and red otherwise, never amber,
\* also when the value is zero or negative.
C2_PresentMetricIsJudged ==
    pc = "scored" =>
        \A key \in MetricKeys :
            ~IsNone(metrics[key]) =>
                /\ ItemsFor(scorecard, key) # {}
                /\ \A i \in ItemsFor(scorecard, key) :
                       scorecard[i].verdict = Judged(key, metrics[key], thresh)

\* the latest period of the income statement carries no operating income
OperatingIncomeAbsentLatest(p) ==
    \/ IsNone(p.fin)
    \/ ~HasRow(p.fin, "Operating Income")
    \/ p.fin.rows["Operating Income"][1][1] = NaN

\* every line item but operating income has a value in every period, and
\* the growth window has a positive base
OtherItemsComplete(p) ==
    /\ p.fin.rows["Total Revenue"] = Full(Doubling)
    /\ p.fin.rows["Net Income"] = Full(One)
    /\ p.fin.rows["Interest Expense"] = Full(MinusOne)
    /\ p.bs.rows["Total Debt"] = Full(Three)
    /\ p.bs.rows["Cash And Cash Equivalents"] = Full(One)
    /\ p.bs.rows["Total Stockholder Equity"] = Full(Two)

\* C3: the company analysis of CompanyAnalyzer for a company without
\* operating income in the latest period returns, with operating_margin None
\* and an amber operating-margin item, and raises nothing.  Stated for the
\* companies whose other line items are complete, so that nothing else can
\* fail the analysis.
C3_MissingOperatingIncomeReturns ==
    (/\ impl = "analysis"
     /\ pc \in {"returned", "raised"}
     /\ provider.k = "data"
     /\ OperatingIncomeAbsentLatest(provider)
     /\ OtherItemsComplete(provider)) =>
        /\ pc = "returned"
        /\ IsNone(metrics.operating_margin)
        /\ \E i \in ItemsFor(outcome.scorecard, "operating_margin") :
               outcome.scorecard[i].verdict = "amber"

\* the line items as CompanyAnalyzer._extract_all_metrics resolves them
LineItem(p, item) ==
    IF item = "revenue" THEN get_row(p.fin, "Total Revenue")
    ELSE IF item = "operating_income" THEN get_row(p.fin, "Operating Income")
    ELSE IF item = "net_income" THEN get_row(p.fin, "Net Income")
    ELSE IF item = "interest_expense" THEN get_row(p.fin, "Interest Expense")
    ELSE IF item = "total_debt" THEN get_row(p.bs, "Total Debt")
    ELSE IF item = "cash" THEN get_row(p.bs, "Cash And Cash Equivalents")
    ELSE coalesce(get_row(p.bs, "Total Stockholder Equity"),
                  get_row(p.bs, "Total Equity Gross Minority Interest"))

HasValue(p, item) == ~IsNone(last_value(LineItem(p, item)))
LastOf(p, item) == last_value(LineItem(p, item)).n

\* a metric has what it needs: its inputs have values, its denominator is not 0
Computable(p, yrs, key) ==
    IF key = "revenue_cagr" THEN
        /\ ~IsNone(LineItem(p, "revenue"))
        /\ Len(LineItem(p, "revenue").s) >= 2
        /\ split_first_last(LineItem(p, "revenue"), yrs).first.n # 0
    ELSE IF key = "operating_margin" THEN
        /\ HasValue(p, "operating_income") /\ HasValue(p, "revenue")
        /\ LastOf(p, "revenue") # 0
    ELSE IF key = "net_debt_to_equity" THEN
        /\ HasValue(p, "total_debt") /\ HasValue(p, "cash") /\ HasValue(p, "equity")
        /\ LastOf(p, "equity") # 0
    ELSE IF key = "interest_coverage" THEN
        /\ HasValue(p, "operating_income") /\ HasValue(p, "interest_expense")
        /\ LastOf(p, "interest_expense") # 0
    ELSE
        /\ HasValue(p, "net_income") /\ HasValue(p, "equity")
        /\ avg_last_n(LineItem(p, "equity"), 2).n # 0

\* C4: whatever line items are absent, empty or filled, the derive stage
\* raises nothing and returns a bundle with the five metric keys, a metric
\* being None exactly when an input has no value or its denominator is zero.
C4_DeriveIsTotal ==
    pc # "derive" =>
        /\ pc = "assemble"
        /\ MetricKeys \subseteq DOMAIN metrics
        /\ \A key \in MetricKeys : IsNone(metrics[key]) <=> ~Computable(stmts, years, key)

\* C5: an exception raised while deriving the metrics or assembling the
\* result reaches the caller as one HTTPException (status 400) that names the
\* ticker and the exception; a response is returned only when both stages
\* raised nothing.
C5_FailureCarriesTickerAndCause ==
    /\ (pc = "raised" /\ outcome.stage \in {"derive", "assemble"}) =>
           /\ outcome.status = 400
           /\ outcome.ticker = ticker
           /\ outcome.cause = "TypeError"
    /\ pc \in {"returned", "raised"} /\ provider.k = "data" =>
           LET d == Metrics(impl, provider, years)
               failed == ~d.ok \/ ~Assemble(impl, ticker, d.v, thresh, years).r.ok
           IN  /\ failed => outcome.k = "raised"
               /\ ~failed => outcome.k = "returned" /\ outcome.key = ticker

C5_Witness ==
    /\ pc = "raised" /\ outcome.stage = "assemble" /\ impl = "analysis"
    /\ outcome.ticker = "ABB"

----------------------------------------------------------------------------
(* Properties of the industry analysis *)

Finished == pc \in {"returned", "raised"}

\* the constituents whose company analysis returns a response
Succeeded == {n \in 1..Len(ind.tickers) : Constituent(n).k = "returned"}

\* C6: when some constituents fail and others succeed, the industry analysis
\* still returns a result, aggregated from exactly the constituents that
\* succeeded.
C6_FailedConstituentIsSkipped ==
    (/\ Finished
     /\ ind.tickers # <<>>
     /\ Succeeded # {}
     /\ Succeeded # 1..Len(ind.tickers)) =>
        /\ outcome.k = "returned"
        /\ outcome.queryType = "industry"
        /\ {c.key : c \in Range(ind.companies)} = {ind.tickers[n] : n \in Succeeded}
        /\ Len(ind.companies) = Cardinality(Succeeded)
        /\ outcome.scorecard = Aggregate(impl, ind.companies)

\* C7: when every constituent of a non-empty roster fails, IndustryAnalyzer
\* returns what it returns for an empty roster: no error, an empty scorecard
\* and no source citations.
C7_AllFailedIsEmptyResult ==
    (/\ impl = "analysis"
     /\ Finished
     /\ ind.tickers # <<>>
     /\ Succeeded = {}) =>
        /\ outcome.k = "returned"
        /\ outcome.scorecard = <<>>
        /\ outcome.sources = <<>>

\* the industry key resolves to no constituent
RosterIsEmpty ==
    \/ ind.industry \notin DOMAIN INDUSTRY_MAP
    \/ INDUSTRY_MAP[ind.industry] = <<>>

\* C8: for an industry key whose roster is empty (an unknown key included) the
\* industry analysis returns, as a normal result, an empty scorecard and no
\* sources, and starts no company analysis.
C8_EmptyRosterReturnsEmpty ==
    (pc # "begin" /\ RosterIsEmpty) =>
        /\ pc = "returned"
        /\ outcome.k = "returned"
        /\ outcome.queryType = "industry"
        /\ outcome.scorecard = <<>>
        /\ outcome.sources = <<>>
        /\ ind.started = {}
        /\ ind.status = <<>>

C8_Witness ==
    /\ pc = "returned"
    /\ ind.industry = "Biotech"
    /\ outcome = empty_response("Biotech")

\* the verdict of the mean score: green = 2, amber = 1, red = 0; a mean
\* >= 1.5 is green, >= 1.0 amber, anything lower red
MeanScoreVerdict(companies, label) ==
    LET hits == Hits(companies, label)
        greens == Cardinality(GreenHits(companies, label))
        ambers == Cardinality({h \in hits :
                      companies[h[1]].scorecard[h[2]].verdict = "amber"})
        total == 2 * greens + ambers
    IN  IF 2 * total >= 3 * Cardinality(hits) THEN "green"
        ELSE IF total >= Cardinality(hits) THEN "amber" ELSE "red"

\* C9: the verdict of every item of an aggregate scorecard is the verdict of
\* the mean score of the constituents' items with that label.
C9_AggregateIsMeanScore ==
    pc = "aggregated" =>
        \A n \in 1..Len(scorecard) :
            scorecard[n].verdict = MeanScoreVerdict(ind.companies, scorecard[n].label)

\* the metric a score-item label stands for
MetricOfLabel(label) ==
    IF label \in Range(RevenueCagrLabels) \cup {"Revenue growth", "Revenue growth (CAGR)"}
        THEN "revenue_cagr"
    ELSE IF label \in {"Operating Margin", "Operating margin"} THEN "operating_margin"
    ELSE IF label \in {"Net Debt / Equity", "Net debt / Equity"} THEN "net_debt_to_equity"
    ELSE IF label \in {"Interest Coverage", "Interest coverage"} THEN "interest_coverage"
    ELSE IF label \in {"Return on Equity (ROE)", "ROE"} THEN "roe"
    ELSE "none"

ItemsOfMetric(sc, key) == {n \in 1..Len(sc) : MetricOfLabel(sc[n].label) = key}

\* C10: the aggregate scorecard holds exactly one item for each of the five
\* metrics that some successfully analysed constituent has an item for, and
\* none for the others.
C10_OneItemPerProducedLabel ==
    (pc = "returned" /\ ind.tickers # <<>>) =>
        \A key \in MetricKeys :
            Cardinality(ItemsOfMetric(outcome.scorecard, key)) =
                IF \E c \in Range(ind.companies) : ItemsOfMetric(c.scorecard, key) # {}
                THEN 1 ELSE 0

\* the list with the responses at positions k and k + 1 exchanged
Swap(seq, k) ==
    [n \in 1..Len(seq) |-> IF n = k THEN seq[k + 1] ELSE IF n = k + 1 THEN seq[k] ELSE seq[n]]

\* C11: the aggregate scorecard and the aggregate upside do not depend on the
\* order in which the constituent results were collected: exchanging two
\* neighbours of the list (and so any reordering of it) changes neither.
C11_AggregateIgnoresOrder ==
    pc = "aggregated" =>
        \A k \in 1..(Len(ind.companies) - 1) :
            /\ Aggregate(impl, Swap(ind.companies, k)) = scorecard
            /\ AggregateUpside(impl, Swap(ind.companies, k))
                   = AggregateUpside(impl, ind.companies)

C11_Witness ==
    /\ pc = "aggregated"
    /\ impl = "analysis"
    /\ Len(ind.companies) >= 2
    /\ ind.companies[1] # ind.companies[2]
    /\ \E n \in 1..Len(scorecard) : scorecard[n].verdict = "amber"

\* the upsides of the constituents whose analysis succeeded and has one
SucceededUpsides ==
    {n \in Succeeded : ~IsNone(Constituent(n).upsidePct)}

\* m is a median of the upsides of the constituents in `ns`: at most half of
\* them lie below it, at most half above it, and it is one of them or the
\* mean of two of them
IsMedianOf(m, ns) ==
    /\ 2 * Cardinality({n \in ns : Less(Constituent(n).upsidePct, m)}) <= Cardinality(ns)
    /\ 2 * Cardinality({n \in ns : Less(m, Constituent(n).upsidePct)}) <= Cardinality(ns)
    /\ \E a, b \in ns :
           LET x == Constituent(a).upsidePct
               y == Constituent(b).upsidePct
           IN  m = Q(x.n * y.d + y.n * x.d, 2 * x.d * y.d)

\* C13: the upside of the industry valuation is the median of the upsides of
\* the successfully analysed constituents that have one, and is absent when
\* none of them has one.
C13_UpsideIsMedian ==
    (pc = "returned" /\ ind.tickers # <<>>) =>
        IF SucceededUpsides = {} THEN outcome.upsidePct = None
        ELSE /\ ~IsNone(outcome.upsidePct)
             /\ IsMedianOf(outcome.upsidePct, SucceededUpsides)

C13_Witness ==
    /\ pc = "returned"
    /\ impl = "app2"
    /\ outcome.upsidePct = Q(180, 1)
    /\ \E c \in Range(ind.companies) : IsNone(c.upsidePct)

\* C12: the industry analysis of IndustryAnalyzer eventually returns, also
\* when the company analysis of a constituent never completes.
C12_HungConstituentIsSkipped == <>(pc = "returned")

\* what the override mapping o asks for: the five defaults, each replaced by
\* the override when o has that key with a number
Overridden(o) ==
    [key \in DOMAIN DEFAULT_THRESHOLDS |->
        IF key \in DOMAIN o /\ IsNumber(o[key]) THEN float(o[key])
        ELSE DEFAULT_THRESHOLDS[key]]

\* C14: whatever the override mapping, the Threshold Set used for judging has
\* exactly the five threshold keys, each holding the override when the mapping
\* has that key with a number and the default otherwise, and no error arises.
C14_OnlyKnownNumericOverrides ==
    pc = "merged" =>
        /\ DOMAIN outcome.set = DOMAIN DEFAULT_THRESHOLDS
        /\ outcome.set = Overridden(thresh)
        /\ outcome.exc = "none"

\* C15: merging is idempotent: the merge of a merged set is that set, and is
\* what one merge of the overrides gives.
C15_MergeIsIdempotent ==
    /\ pc = "merged" /\ impl # "scorecard" => merge_thresholds(outcome.set) = outcome.set
    /\ pc = "remerged" => outcome.set = merge_thresholds(thresh)

C15_Witness ==
    /\ pc = "remerged"
    /\ "roe_min" \in DOMAIN thresh /\ thresh.roe_min = Q(5, 100)
    /\ "pe_max" \in DOMAIN thresh
    /\ "rev_cagr_min" \in DOMAIN thresh /\ thresh.rev_cagr_min = Text
    /\ outcome.set.roe_min = Q(5, 100)
    /\ outcome.set # DEFAULT_THRESHOLDS

\* (last/first) ** (1/n) - 1 for first > 0, last >= 0, n >= 1
Growth(first, last, n) ==
    IF n.n = 1 THEN Q(last.n * first.d - first.n * last.d, first.n * last.d)
    ELSE Root(last.n * first.d, first.n * last.d, n.n)

\* the real v is the number t
SameNumber(v, t) == IsReal(v) /\ GE(v, t) /\ LE(v, t)

\* C16: cagr is None when an argument is None, first <= 0 or n <= 0, None
\* rather than a non-real value when first > 0 and last < 0, and
\* (last/first)^(1/n) - 1 otherwise; cagr(100, 200, 1) = 1, cagr(100, 100, 5) = 0.
C16_CagrIsAbsentOrReal ==
    pc = "grown" =>
        /\ IF IsNone(metrics.first) \/ IsNone(metrics.last) \/ IsNone(metrics.n)
           THEN outcome = None
           ELSE IF metrics.first.n <= 0 \/ metrics.n.n <= 0 \/ metrics.last.n < 0
           THEN outcome = None
           ELSE outcome = Growth(metrics.first, metrics.last, metrics.n)
        /\ metrics = [first |-> Q(100, 1), last |-> Q(200, 1), n |-> Q(1, 1)]
              => SameNumber(outcome, Q(1, 1))
        /\ metrics = [first |-> Q(100, 1), last |-> Q(100, 1), n |-> Q(5, 1)]
              => SameNumber(outcome, Q(0, 1))

\* the window split_first_last is to return for a series of L observations
Window(series, yrs) ==
    IF IsNone(series) THEN NoWindow
    ELSE IF Len(series.s) < 2 THEN NoWindow
    ELSE [first |-> Q(series.s[Len(series.s) - Min(yrs, Len(series.s) - 1)].v, 1),
          last  |-> Q(series.s[Len(series.s)].v, 1),
          n     |-> Q(Min(yrs, Len(series.s) - 1), 1)]

\* C17: for a look-back of at least 1, split_first_last gives None for fewer
\* than two observations and otherwise (series[L-1-w], series[L-1], w) with
\* w = min(years, L-1); the revenue CAGR is taken over w, not over years.
C17_WindowIsClamped ==
    impl = "revenue_cagr" /\ pc \in {"cagr", "grown"} =>
        /\ metrics = Window(stmts, years)
        /\ ~IsNone(stmts) /\ Len(stmts.s) >= 2 => metrics.n.n <= Len(stmts.s) - 1
        /\ pc = "grown" =>
               outcome = cagr(Window(stmts, years).first, Window(stmts, years).last,
                              Window(stmts, years).n)

\* a look-back of 5 on four observations: the window is 3
C17_Witness ==
    /\ impl = "revenue_cagr" /\ pc = "grown"
    /\ years = MaxLookback
    /\ ~IsNone(stmts) /\ Len(stmts.s) = 4
    /\ metrics = [first |-> Q(100, 1), last |-> Q(200, 1), n |-> Q(3, 1)]
    /\ outcome = Root(2, 1, 3)

\* the line-item names under which the repository looks a concept up, in
\* order (app2.py lines 302-314, analysis/company.py lines 57-59)
AcceptableNames ==
    [total_debt |-> <<"Total Debt">>,
     cash       |-> <<"Cash And Cash Equivalents", "Cash And Cash Equivalents USD", "Cash">>,
     equity     |-> <<"Total Stockholder Equity", "Total Equity Gross Minority Interest">>]

\* the series of the first of `names` that the table has, None when the table
\* is None or has none of them
FirstAvailable(df, names) ==
    IF IsNone(df) THEN None
    ELSE IF \A j \in 1..Len(names) : ~HasRow(df, names[j]) THEN None
    ELSE get_row(df, names[CHOOSE j \in 1..Len(names) :
                             /\ HasRow(df, names[j])
                             /\ \A h \in 1..(j - 1) : ~HasRow(df, names[h])])

\* no row from which total debt is summed
NoDebtParts(df) ==
    IsNone(df) \/ (~HasRow(df, "Short Long Term Debt") /\ ~HasRow(df, "Long Term Debt"))

\* C18: for total debt, cash and equity the resolved series is the one of the
\* first acceptable name that the table has, and None when the table is None
\* or has none of the names (total debt is looked at where it is not a sum).
C18_FirstAvailableName ==
    pc = "resolved" =>
        /\ NoDebtParts(stmts.bs) =>
               metrics.total_debt = FirstAvailable(stmts.bs, AcceptableNames.total_debt)
        /\ metrics.cash = FirstAvailable(stmts.bs, AcceptableNames.cash)
        /\ metrics.equity = FirstAvailable(stmts.bs, AcceptableNames.equity)

\* the periods at which both series have a value
Aligned(pair) ==
    IF IsNone(pair.net_income) \/ IsNone(pair.equity) THEN {}
    ELSE {t \in 1..MaxDates :
            /\ \E i \in 1..Len(pair.net_income.s) :
                   pair.net_income.s[i].t = t /\ pair.net_income.s[i].v # NaNFloat
            /\ \E j \in 1..Len(pair.equity.s) :
                   pair.equity.s[j].t = t /\ pair.equity.s[j].v # NaNFloat}

\* C19: with fewer than two periods present in both series (a series absent,
\* or one period shared) the ROE series is empty, and no error arises.
C19_FewerThanTwoAlignedIsEmpty ==
    pc = "charted" /\ Cardinality(Aligned(stmts)) < 2 => outcome.series = <<>>

C19_Witness ==
    /\ pc = "charted" /\ impl = "roe"
    /\ Cardinality(Aligned(stmts)) = 1
    /\ Len(stmts.net_income.s) = MaxDates
    /\ Len(stmts.equity.s) = MaxDates
    /\ outcome.series = <<>>

\* the aligned period before t, and the average equity of t and that period
PriorAligned(pair, t) ==
    CHOOSE p \in Aligned(pair) :
        p < t /\ \A q \in Aligned(pair) : q < t => q <= p

ValueIn(series, t) == series.s[CHOOSE i \in 1..Len(series.s) : series.s[i].t = t].v

AverageEquity(pair, t) ==
    Mean2(ValueIn(pair.equity, PriorAligned(pair, t)), ValueIn(pair.equity, t))

\* the aligned periods that are to have a record: not the first, average
\* equity not zero
Recorded(pair) ==
    {t \in Aligned(pair) :
        /\ \E p \in Aligned(pair) : p < t
        /\ AverageEquity(pair, t).n # 0}

\* C20: without a look-back cutoff the ROE series holds, in ascending date
\* order, exactly one record for each aligned period but the first whose
\* average equity is not zero, with value 100 * net income / average equity.
C20_OneRecordPerAlignedPeriod ==
    pc = "charted" /\ (impl = "finance2" => years = 0) =>
        /\ Len(outcome.series) = Cardinality(Recorded(stmts))
        /\ \A i \in 1..Len(outcome.series) :
               /\ outcome.series[i].date \in Recorded(stmts)
               /\ outcome.series[i].roe =
                      Percent(ValueIn(stmts.net_income, outcome.series[i].date),
                              AverageEquity(stmts, outcome.series[i].date))
               /\ i > 1 => outcome.series[i - 1].date < outcome.series[i].date

----------------------------------------------------------------------------
(* Properties of the ROE chart pipeline *)

\* the rows of the frame that belong to the entity of row i
EntityRows(i) == {j \in 1..Len(stmts.rows) : stmts.rows[j].ticker = stmts.rows[i].ticker}

RECURSIVE SumOf(_, _)
SumOf(f, S) == IF S = {} THEN 0 ELSE f[CHOOSE j \in S : TRUE] + SumOf(f, S \ {CHOOSE j \in S : TRUE})

\* n times the distance of row j's clamped value from the mean of row i's entity
Distance(i) ==
    [j \in EntityRows(i) |->
        Cardinality(EntityRows(i)) * stmts.rows[j].roe_clamped
          - SumOf([m \in EntityRows(i) |-> stmts.rows[m].roe_clamped], EntityRows(i))]

\* sum of the squares of the distances of row i's entity
SquaredDistances(i) ==
    SumOf([j \in EntityRows(i) |-> Distance(i)[j] * Distance(i)[j]], EntityRows(i))

\* |x - mean| > 3 * population standard deviation, on squares and cleared of
\* denominators: n * (n(x - mean))^2 > 9 * sum of (n(x_j - mean))^2
BeyondThreeSigma(i) ==
    Cardinality(EntityRows(i)) * Distance(i)[i] * Distance(i)[i] > 9 * SquaredDistances(i)

\* the same with = : the value lies exactly three standard deviations away,
\* where the rounding of the floats decides the comparison
AtThreeSigma(i) ==
    /\ SquaredDistances(i) > 0
    /\ Cardinality(EntityRows(i)) * Distance(i)[i] * Distance(i)[i] = 9 * SquaredDistances(i)

WindowRows(i) ==
    {j \in EntityRows(i) :
        /\ stmts.rows[j].date.n > stmts.rows[i].date.n - years * YearDays
        /\ stmts.rows[j].date.n <= stmts.rows[i].date.n}

WindowSum(i) == SumOf([j \in WindowRows(i) |-> stmts.rows[j].roe_clamped], WindowRows(i))

WindowSumSq(i) ==
    SumOf([j \in WindowRows(i) |-> stmts.rows[j].roe_clamped * stmts.rows[j].roe_clamped],
          WindowRows(i))

\* C22: after compute_rolling_metrics every observation carries the mean and
\* the population standard deviation of exactly its own entity's clamped
\* values dated within the trailing window that ends at the observation,
\* whatever number of rows the window holds.
C22_RollingOverWindowRows ==
    (pc = "frame" /\ "roe_roll_mean" \in stmts.cols) =>
        \A i \in 1..Len(stmts.rows) :
            /\ stmts.rows[i].roe_roll_mean = Q(WindowSum(i), Cardinality(WindowRows(i)))
            /\ stmts.rows[i].roe_roll_std
                 = [sq |-> Q(Cardinality(WindowRows(i)) * WindowSumSq(i) - WindowSum(i) * WindowSum(i),
                             Cardinality(WindowRows(i)) * Cardinality(WindowRows(i)))]

\* the (period, ROE) pairs of a list of records
Pairs(items) == [i \in 1..Len(items) |-> [date |-> items[i].date, roe |-> items[i].roe]]

\* C23: whenever the scorecard ROE and the historical series are both
\* defined, the scorecard ROE is the ROE of the most recent period of the
\* series divided by 100, and build_historical_roe without a look-back and
\* calculate_historical_roe return the same (period, ROE) records.
C23_OneRoeConvention ==
    /\ (outcome.k = "roe" /\ outcome.built # NotRun /\ outcome.calculated # NotRun)
          => Pairs(outcome.built.items) = Pairs(outcome.calculated.items)
    /\ (outcome.k = "roe" /\ outcome.built # NotRun /\ outcome.scorecard # NotRun)
          => ((outcome.built.items # <<>> /\ ~IsNone(outcome.scorecard.v))
                => outcome.scorecard.v
                     = Q(outcome.built.items[Len(outcome.built.items)].roe.n,
                         100 * outcome.built.items[Len(outcome.built.items)].roe.d))

\* C24: during an industry analysis over a roster of n >= 1 tickers at most
\* min(3, n) company analyses run at any moment, the pool holds exactly one
\* task per roster ticker, and the response is built only when every task has
\* been collected or discarded.
C24_BoundedPoolThenAggregate ==
    /\ Cardinality(Running) <= Min(3, Len(ind.tickers))
    /\ (pc \in {"pool", "loop", "returned"} /\ ind.tickers # <<>>) =>
          /\ DOMAIN ind.status = DOMAIN ind.tickers
          /\ \A n, m \in DOMAIN ind.tickers : ind.tickers[n] = ind.tickers[m] => n = m
          /\ ind.started \subseteq Range(ind.tickers)
    /\ (pc = "returned" /\ ind.tickers # <<>>) =>
          /\ \A n \in DOMAIN ind.status : ind.status[n] = "collected"
          /\ ind.started = Range(ind.tickers)

\* the pool is full while a task still waits for a worker
C24_Witness ==
    /\ pc = "pool"
    /\ Cardinality(Running) = 3
    /\ \E n \in DOMAIN ind.status : ind.status[n] = "queued"

\* the constituents whose company analysis is among the aggregated ones
Contributors == {ind.companies[n].key : n \in DOMAIN ind.companies}

\* C25: the source citations of an industry analysis are exactly one citation
\* per constituent whose company analysis was aggregated, wherever the
\* constituent stands in the roster.
C25_SourcesAreTheContributors ==
    (pc = "returned" /\ ind.tickers # <<>>) =>
        /\ Range(outcome.sources) = Contributors
        /\ Len(outcome.sources) = Cardinality(Contributors)

----------------------------------------------------------------------------
(* Properties of the ticker cache *)

\* C26: a get that has returned gave back the stored data without calling the
\* provider exactly when it found an entry for its ticker younger than 300
\* seconds; otherwise it called the provider, put the fetched data under its
\* ticker stamped with the time of the call, returned the fetched data, and
\* left the entries of the other tickers as they were.
C26_GetReturnsFreshOrFetches ==
    ind.getter.pc = "returned" =>
        IF /\ ind.getter.seen # None
           /\ ind.getter.now - ind.getter.seen.timestamp < 300
        THEN /\ ~ind.getter.called
             /\ ind.getter.data = ind.getter.seen.data
        ELSE /\ ind.getter.called
             /\ ind.getter.data.ticker = ind.getter.ticker
             /\ Lookup(ind.getter.after, ind.getter.ticker)
                  = Entry(ind.getter.ticker, ind.getter.data, ind.getter.now)
             /\ \A k \in CacheKeys \ {ind.getter.ticker} :
                    Lookup(ind.getter.after, k) = Lookup(ind.getter.before, k)

\* a get has replaced the expired entry of its ticker next to another entry
C26_Witness ==
    /\ ind.getter.pc = "returned"
    /\ ind.getter.called
    /\ ind.getter.seen # None
    /\ Len(ind.getter.after) = 2

\* C27: cleanup removes only entries older than max_age, also while get calls
\* run: every entry it deletes is older than max_age when it is deleted, and
\* neither the sweep nor the cleanup_cache entry point ends with an error.
C27_SweepEvictsOnlyStale ==
    /\ ind.sweeper.pc # "raised"
    /\ \A n \in 1..Len(ind.sweeper.evicted) :
          ind.sweeper.now - ind.sweeper.evicted[n].timestamp > ind.sweeper.max_age

\* C28: whatever merge_thresholds, from_params, build_scorecard, company
\* analysis and pool worker calls have run, the default thresholds are the
\* ones of the source, the caller's override mapping is as the caller wrote
\* it, and the Threshold Set is the one the merge returned.
C28_ThresholdsAreReadOnly ==
    (pc = "frame" /\ impl = "analysis") =>
        /\ stmts.defaults = DEFAULT_THRESHOLDS
        /\ stmts.service = DEFAULT_THRESHOLDS
        /\ stmts.overrides = thresh
        /\ stmts.set # None => stmts.set = merge_thresholds(thresh)

\* a merge with an effective override, a scorecard and all pool workers have run
C28_Witness ==
    /\ pc = "frame"
    /\ stmts.set # None
    /\ stmts.set # DEFAULT_THRESHOLDS
    /\ scorecard # <<>>
    /\ ind.workers = 1..PoolCap

\* all clamped values of row i's entity are equal
AllEqual(i) == \A j \in EntityRows(i) : stmts.rows[j].roe_clamped = stmts.rows[i].roe_clamped

\* C29: after flag_outliers no observation of an entity with at most 10
\* observations is flagged, and in an entity whose clamped values are all
\* equal every z-score is 0 and nothing is flagged.
C29_SmallOrConstantEntityUnflagged ==
    (pc = "frame" /\ "outlier_flag" \in stmts.cols) =>
        \A i \in 1..Len(stmts.rows) :
            /\ Cardinality(EntityRows(i)) <= 10 => stmts.rows[i].outlier_flag = FALSE
            /\ AllEqual(i) =>
                  /\ stmts.rows[i].z_score = [sign |-> 0, sq |-> Q(0, 1)]
                  /\ stmts.rows[i].outlier_flag = FALSE

\* the errors a stage raises when the stage before it has not been applied
StageOrderErrors ==
    {"ValueError: Expected 'roe_clamped'", "ValueError: Missing rolling metrics",
     "ValueError: Missing outlier flags"}

\* the last call was stage `name` and it returned
StageReturned(name) == pc = "frame" /\ outcome.k = "stage" /\ outcome.name = name

\* the last call was stage `name` and it raised; stmts is still the frame it got
StageRaised(name) == pc = "raised" /\ outcome.k = "raised" /\ outcome.name = name

\* C30: the chart pipeline enforces its stage order.  compute_rolling_metrics
\* returns only on a frame with the clamped column of prepare_roe_data and
\* raises its ValueError on every frame without it; plot_roe returns only on a
\* frame with the columns of compute_rolling_metrics and of flag_outliers and
\* raises a ValueError on every frame lacking one of them; the columns of the
\* later stages never exist without the clamped column; and build_roe_chart
\* never ends in one of these stage-order errors: when it returns, the frame
\* carries the columns of all stages.
C30_StageOrderEnforced ==
    /\ StageReturned("compute_rolling_metrics") => "roe_clamped" \in stmts.cols
    /\ StageRaised("compute_rolling_metrics") =>
          IF "roe_clamped" \in stmts.cols
          THEN outcome.exc \notin StageOrderErrors
          ELSE outcome.exc = "ValueError: Expected 'roe_clamped'"
    /\ StageReturned("plot_roe") => {"roe_clamped", "roe_roll_mean", "outlier_flag"} \subseteq stmts.cols
    /\ StageRaised("plot_roe") =>
          /\ ~({"roe_roll_mean", "outlier_flag"} \subseteq stmts.cols)
          /\ outcome.exc = IF "roe_roll_mean" \notin stmts.cols
                           THEN "ValueError: Missing rolling metrics"
                           ELSE "ValueError: Missing outlier flags"
    /\ pc = "frame" =>
          ({"roe_roll_mean", "roe_roll_std", "z_score", "outlier_flag"} \cap stmts.cols # {}
              => "roe_clamped" \in stmts.cols)
    /\ StageRaised("build_roe_chart") => outcome.exc \notin StageOrderErrors
    /\ StageReturned("build_roe_chart") =>
          {"roe_clamped", "roe_roll_mean", "roe_roll_std", "z_score", "outlier_flag"}
              \subseteq stmts.cols

\* build_roe_chart has returned a chart of at least two observations
C30_Witness ==
    /\ StageReturned("build_roe_chart")
    /\ Len(stmts.rows) >= 2
    /\ "outlier_flag" \in stmts.cols

====
